---- MODULE Spec2Model ----
(***************************************************************************)
(* Collection-and-streaming core of sentinel-mesh: the Collector service   *)
(* (Start, Stop and its four collection loops), the EventCollector with    *)
(* its lastTimestamp watermark, and the Kafka writer the loops publish to. *)
(* Sources: internal/services/collector.go, cmd/collector/main.go,         *)
(* pkg/metrics/metrics.go.                                                 *)
(***************************************************************************)
EXTENDS Integers, Sequences, FiniteSets, TLC

\* ------------------------------------------------------------------ bounds
\* Model time runs over 0..MaxTime, in units of five minutes.
MaxTime == 3
\* Number of distinct cluster events (by UID) the cluster API can list.
MaxEvents == 2
\* Greatest number of metrics one node or pod collection returns.
MaxBatch == 2
\* Number of ticker ticks delivered, over all loops, in the modelled window.
MaxTicks == 2

\* Number of nodes, and of pods, the cluster can hold.
MaxObjects == 2

\* Length of the longest involved-object name of the event-ID inputs.
MaxNameLen == 44

\* Ticks the tickers deliver while the process runs under run.
MaxRunTicks == 1

\* Metrics a node or pod collection returns while the process runs under run.
MaxRunBatch == 1

\* -------------------------------------------------------- program constants
\* NewEventCollector and Reset: time.Now().Add(-5 * time.Minute); five
\* minutes are one unit of model time.
FiveMinutes == 1

\* RecordMetricCollection("system", "runtime", duration, 3, nil).
SystemMetricCount == 3

\* float64(cpu.MilliValue()) / 1000: a thousand millicores are one core.
MilliPerCore == 1000

\* The seconds of five minutes, the unit of model time (Duration.Seconds()).
FiveMinutesSeconds == 300

\* generateEventID: if len(baseID) > 100.
IdLimit == 100

Times == 0..MaxTime
Uids == 1..MaxEvents
\* cluster[u] = NoEvent: the cluster API lists no event with UID u.
NoEvent == -1

VARIABLES
  now,            \* the wall clock, time.Now()
  cluster,        \* the cluster API's events: UID -> last-seen time, or NoEvent
  lastTimestamp,  \* EventCollector.lastTimestamp, the watermark
  ecEvents,       \* the slice returned by the latest direct call of Collect
  ecErr,          \* whether the latest direct call of Collect returned an error
  lastOp,         \* the latest EventCollector method a direct caller invoked
  ctxDone,        \* the context passed to Start has been cancelled
  stopCtxDone,    \* the context passed to Stop is done (its deadline expired)
  running,        \* Collector.running
  wg,             \* the counter of Collector.wg
  writerClosed,   \* Collector.kafkaWriter has been closed
  startPc,        \* where the Start call is
  launched,       \* per source, the goroutines Start has launched so far
  stopPc,         \* where the Stop call is
  doneCh,         \* Stop's done channel: "none", "open" or "closed"
  stopBranch,     \* the case Stop's select took: "none", "stopped" or "timeout"
  pc,             \* per source, where its collection loop is
  batch,          \* per source, the records its collector returned this cycle
  sent,           \* per source, the publishes attempted this cycle, in order
  ticks,          \* ticker ticks delivered so far
  recorder,       \* per source, the metrics recorder's counters for its key
  second,         \* a second call of Start: where it is, and where its loops are
  call,           \* the function a direct caller has applied, or "none"
  args,           \* the arguments of that call and what its environment answers
  result          \* what the call returned

\* The EventCollector's direct caller.
callerVars == <<ecEvents, ecErr, lastOp>>

\* The Collector service, its loops and its callers' contexts.
supVars == <<ctxDone, stopCtxDone, running, wg, writerClosed, startPc, launched,
             stopPc, doneCh, stopBranch, pc, batch, sent, ticks, recorder>>

\* A second call of Start on the same Collector.
restartVars == <<second>>

\* A function of the package applied on its own by a direct caller.
fnVars == <<call, args, result>>

\* The EventCollector and the Collector service together.
serviceVars == <<now, cluster, lastTimestamp, callerVars, supVars, restartVars>>

vars == <<now, cluster, lastTimestamp, ecEvents, ecErr, lastOp, ctxDone,
          stopCtxDone, running, wg, writerClosed, startPc, launched, stopPc,
          doneCh, stopBranch, pc, batch, sent, ticks, recorder, second, call,
          args, result>>

\* ---------------------------------------------------------- EventCollector

\* Mutant of After: "not before" in place of "strictly after".
AfterOrEqual(t, u) == t >= u

\* time.Time.After: t is strictly after u.
After(t, u) == t > u

\* The Type of the cluster event with UID u: corev1.EventTypeNormal or
\* corev1.EventTypeWarning.
EventType(u) == IF u % 2 = 1 THEN "Normal" ELSE "Warning"

\* The Items of Events("").List: the listed cluster events, in UID order.
RECURSIVE ListFrom(_, _)
ListFrom(cl, u) ==
  IF u > MaxEvents THEN <<>>
  ELSE IF cl[u] = NoEvent THEN ListFrom(cl, u + 1)
  ELSE <<[uid |-> u, type |-> EventType(u), lastSeen |-> cl[u]]>>
       \o ListFrom(cl, u + 1)

ListEvents(cl) == ListFrom(cl, 1)

\* convertKubernetesEvent: the model Event of a cluster event; its Timestamp
\* is the cluster event's LastTimestamp.
convertKubernetesEvent(kubeEvent) ==
  [id |-> kubeEvent.uid, type |-> kubeEvent.type, timestamp |-> kubeEvent.lastSeen]

\* Mutant of CollectLoop: newLastTimestamp follows the latest kept event
\* instead of the greatest one (the inner comparison dropped).
RECURSIVE CollectLoopLatest(_, _, _, _)
CollectLoopLatest(items, wm, events, newLast) ==
  IF items = <<>> THEN [events |-> events, newLastTimestamp |-> newLast]
  ELSE LET event == Head(items) IN
    IF After(event.lastSeen, wm)
    THEN CollectLoopLatest(Tail(items), wm,
                           Append(events, convertKubernetesEvent(event)),
                           event.lastSeen)
    ELSE CollectLoopLatest(Tail(items), wm, events, newLast)

\* The loop of Collect over eventList.Items: events is the slice built so
\* far, newLast the local newLastTimestamp; the filter reads ec.lastTimestamp
\* (wm), which the loop never writes.
RECURSIVE CollectLoop(_, _, _, _)
CollectLoop(items, wm, events, newLast) ==
  IF items = <<>> THEN [events |-> events, newLastTimestamp |-> newLast]
  ELSE LET event == Head(items) IN
    IF After(event.lastSeen, wm)
    THEN CollectLoop(Tail(items), wm,
                     Append(events, convertKubernetesEvent(event)),
                     IF After(event.lastSeen, newLast)
                     THEN event.lastSeen ELSE newLast)
    ELSE CollectLoop(Tail(items), wm, events, newLast)

\* Mutant of Collect: the watermark is left where it was.
CollectNoAdvance(items, wm) ==
  [events |-> CollectLoop(items, wm, <<>>, wm).events, newLastTimestamp |-> wm]

\* Mutant of Collect: the filter looks back five minutes before the
\* watermark.
CollectWithLookback(items, wm) == CollectLoop(items, wm - FiveMinutes, <<>>, wm)

\* EventCollector.Collect after a successful listing: the events returned
\* and the value assigned to ec.lastTimestamp at the end of the call.
Collect(items, wm) == CollectLoop(items, wm, <<>>, wm)

\* A direct caller's Collect whose listing succeeds.
ECCollectOk ==
  LET r == Collect(ListEvents(cluster), lastTimestamp) IN
    /\ ecEvents' = r.events
    /\ ecErr' = FALSE
    /\ lastTimestamp' = r.newLastTimestamp
    /\ lastOp' = "Collect"
    /\ UNCHANGED <<fnVars, second, now, cluster, supVars>>

\* Mutant of ECCollectFail: the watermark is moved before the listing's
\* error is looked at.
ECCollectFailAdvance ==
  /\ ecEvents' = <<>>
  /\ ecErr' = TRUE
  /\ lastTimestamp' = now
  /\ lastOp' = "Collect"
  /\ UNCHANGED <<fnVars, second, now, cluster, supVars>>

\* A direct caller's Collect whose listing fails: return nil, err.
ECCollectFail ==
  /\ ecEvents' = <<>>
  /\ ecErr' = TRUE
  /\ lastOp' = "Collect"
  /\ UNCHANGED <<fnVars, second, now, cluster, lastTimestamp, supVars>>

\* EventCollector.Reset.
Reset ==
  /\ lastTimestamp' = now - FiveMinutes
  /\ lastOp' = "Reset"
  /\ UNCHANGED <<fnVars, second, now, cluster, ecEvents, ecErr, supVars>>

\* Mutant of SetLastTimestamp: the watermark is only ever moved forward.
SetLastTimestampForward(timestamp) ==
  /\ lastTimestamp' = IF timestamp > lastTimestamp THEN timestamp ELSE lastTimestamp
  /\ lastOp' = "SetLastTimestamp"
  /\ UNCHANGED <<fnVars, second, now, cluster, ecEvents, ecErr, supVars>>

\* EventCollector.SetLastTimestamp(timestamp).
SetLastTimestamp(timestamp) ==
  /\ lastTimestamp' = timestamp
  /\ lastOp' = "SetLastTimestamp"
  /\ UNCHANGED <<fnVars, second, now, cluster, ecEvents, ecErr, supVars>>

\* ------------------------------------------------------------- environment

\* The wall clock advances.
ClockTick ==
  /\ now < MaxTime
  /\ now' = now + 1
  /\ UNCHANGED <<fnVars, second, cluster, lastTimestamp, callerVars, supVars>>

\* The cluster reports a new event with UID u, last seen at t.
EventAppears(u, t) ==
  /\ cluster[u] = NoEvent
  /\ cluster' = [cluster EXCEPT ![u] = t]
  /\ UNCHANGED <<fnVars, second, now, lastTimestamp, callerVars, supVars>>

\* A listed event occurs again: its last-seen time moves forward to t.
EventRecurs(u, t) ==
  /\ cluster[u] # NoEvent
  /\ t > cluster[u]
  /\ cluster' = [cluster EXCEPT ![u] = t]
  /\ UNCHANGED <<fnVars, second, now, lastTimestamp, callerVars, supVars>>

\* ------------------------------------------------- Collector: the loops

\* The four sources, in the order Start launches their loops.
LaunchOrder == <<"system", "nodes", "pods", "events">>

Sources == {LaunchOrder[k] : k \in 1..Len(LaunchOrder)}

\* The sources whose loop calls a collector and publishes what it returns.
Collecting == {"nodes", "pods", "events"}

\* Names of metrics the node and pod collectors emit, in emission order.
MetricNames ==
  [nodes |-> <<"node_info", "node_age_seconds">>,
   pods |-> <<"pod_phase", "pod_ready", "pod_age_seconds">>]

\* The n metrics a node or pod collection returns: each carries its name and
\* the timestamp the collector took (time.Now()).
MetricBatch(s, n) ==
  [k \in 1..n |->
     [name |-> MetricNames[s][((k - 1) % Len(MetricNames[s])) + 1],
      timestamp |-> now]]

\* Mutant of MetricMessage: the message is stamped with the time of the
\* publish.
MetricMessagePublishTime(metric) ==
  [topic |-> "metrics", key |-> metric.name, time |-> now]

\* sendMetricToKafka's message: key = metric.Name, time = metric.Timestamp,
\* written by c.kafkaWriter, whose topic is the metrics topic.
MetricMessage(metric) ==
  [topic |-> "metrics", key |-> metric.name, time |-> metric.timestamp]

\* sendEventToKafka's message: key = event.Type, time = event.Timestamp,
\* written by a writer of its own on the logs topic.
EventMessage(event) ==
  [topic |-> "logs", key |-> event.type, time |-> event.timestamp]

\* Metrics.RecordMetricCollection(source, type, duration, count, err).
RecordMetricCollection(rec, s, count, failed) ==
  [rec EXCEPT ![s] = [collected |-> @.collected + count,
                      observations |-> @.observations + 1,
                      errors |-> @.errors + (IF failed THEN 1 ELSE 0)]]

\* Mutant of LoopExit: a loop returns on <-ctx.Done() only while the
\* Collector is marked running.
LoopExitWhileRunning(s) ==
  /\ pc[s] = "select"
  /\ ctxDone
  /\ running
  /\ pc' = [pc EXCEPT ![s] = "exited"]
  /\ wg' = wg - 1
  /\ UNCHANGED <<fnVars, second, now, cluster, lastTimestamp, callerVars, ctxDone, stopCtxDone,
                 running, writerClosed, startPc, launched, stopPc, doneCh,
                 stopBranch, batch, sent, ticks, recorder>>

\* A loop's select takes <-ctx.Done(): return, and the deferred wg.Done().
LoopExit(s) ==
  /\ pc[s] = "select"
  /\ ctxDone
  /\ pc' = [pc EXCEPT ![s] = "exited"]
  /\ wg' = wg - 1
  /\ UNCHANGED <<fnVars, second, now, cluster, lastTimestamp, callerVars, ctxDone, stopCtxDone,
                 running, writerClosed, startPc, launched, stopPc, doneCh,
                 stopBranch, batch, sent, ticks, recorder>>

\* collectSystemMetrics' select takes <-ticker.C: the whole cycle, which makes
\* no blocking call, and its RecordMetricCollection.
SystemTick ==
  /\ pc["system"] = "select"
  /\ ticks < MaxTicks
  /\ ticks' = ticks + 1
  /\ recorder' = RecordMetricCollection(recorder, "system", SystemMetricCount, FALSE)
  /\ UNCHANGED <<fnVars, second, now, cluster, lastTimestamp, callerVars, ctxDone, stopCtxDone,
                 running, wg, writerClosed, startPc, launched, stopPc, doneCh,
                 stopBranch, pc, batch, sent>>

\* Mutant of LoopTick: a cycle begins only while no other loop is in one.
LoopTickExclusive(s) ==
  /\ s \in Collecting
  /\ pc[s] = "select"
  /\ \A t \in Collecting \ {s} : pc[t] \notin {"collect", "publish"}
  /\ ticks < MaxTicks
  /\ ticks' = ticks + 1
  /\ pc' = [pc EXCEPT ![s] = "collect"]
  /\ UNCHANGED <<fnVars, second, now, cluster, lastTimestamp, callerVars, ctxDone, stopCtxDone,
                 running, wg, writerClosed, startPc, launched, stopPc, doneCh,
                 stopBranch, batch, sent, ticks, recorder>>

\* Mutant of LoopTick: a tick that fires while the loop is publishing starts
\* the next cycle at once.
LoopTickDuringCycle(s) ==
  /\ s \in Collecting
  /\ pc[s] \in {"select", "publish"}
  /\ ticks < MaxTicks
  /\ ticks' = ticks + 1
  /\ pc' = [pc EXCEPT ![s] = "collect"]
  /\ UNCHANGED <<fnVars, second, now, cluster, lastTimestamp, callerVars, ctxDone, stopCtxDone,
                 running, wg, writerClosed, startPc, launched, stopPc, doneCh,
                 stopBranch, batch, sent, recorder>>

\* A collecting loop's select takes <-ticker.C: the cycle begins and the
\* collector's Collect is called.
LoopTick(s) ==
  /\ s \in Collecting
  /\ pc[s] = "select"
  /\ ticks < MaxTicks
  /\ ticks' = ticks + 1
  /\ pc' = [pc EXCEPT ![s] = "collect"]
  /\ UNCHANGED <<fnVars, second, now, cluster, lastTimestamp, callerVars, ctxDone, stopCtxDone,
                 running, wg, writerClosed, startPc, launched, stopPc, doneCh,
                 stopBranch, batch, sent, recorder>>

\* Mutant of LoopCollectFail: the error ends the loop (return in place of
\* continue).
LoopCollectFailReturn(s) ==
  /\ pc[s] = "collect"
  /\ recorder' = RecordMetricCollection(recorder, s, 0, TRUE)
  /\ pc' = [pc EXCEPT ![s] = "exited"]
  /\ wg' = wg - 1
  /\ UNCHANGED <<fnVars, second, now, cluster, lastTimestamp, callerVars, ctxDone, stopCtxDone,
                 running, writerClosed, startPc, launched, stopPc, doneCh,
                 stopBranch, batch, sent, ticks>>

\* Collect returned an error: log, RecordMetricCollection(.., 0, err),
\* continue.
LoopCollectFail(s) ==
  /\ pc[s] = "collect"
  /\ recorder' = RecordMetricCollection(recorder, s, 0, TRUE)
  /\ pc' = [pc EXCEPT ![s] = "select"]
  /\ UNCHANGED <<fnVars, second, now, cluster, lastTimestamp, callerVars, ctxDone, stopCtxDone,
                 running, wg, writerClosed, startPc, launched, stopPc, doneCh,
                 stopBranch, batch, sent, ticks>>

\* nodeCollector.Collect or podCollector.Collect returned n metrics.
LoopCollectMetrics(s, n) ==
  /\ s \in {"nodes", "pods"}
  /\ pc[s] = "collect"
  /\ batch' = [batch EXCEPT ![s] = MetricBatch(s, n)]
  /\ pc' = [pc EXCEPT ![s] = "publish"]
  /\ UNCHANGED <<fnVars, second, now, cluster, lastTimestamp, callerVars, ctxDone, stopCtxDone,
                 running, wg, writerClosed, startPc, launched, stopPc, doneCh,
                 stopBranch, sent, ticks, recorder>>

\* Mutant of LoopCollectEvents: the events are returned and the watermark
\* is left for a later step to move.
LoopCollectEventsKeepWatermark ==
  LET r == Collect(ListEvents(cluster), lastTimestamp) IN
    /\ pc["events"] = "collect"
    /\ batch' = [batch EXCEPT !["events"] = r.events]
    /\ pc' = [pc EXCEPT !["events"] = "publish"]
    /\ UNCHANGED <<fnVars, second, now, cluster, lastTimestamp, callerVars, ctxDone, stopCtxDone,
                   running, wg, writerClosed, startPc, launched, stopPc, doneCh,
                   stopBranch, sent, ticks, recorder>>

\* eventCollector.Collect returned: the events newer than the watermark,
\* and the watermark moved.
LoopCollectEvents ==
  LET r == Collect(ListEvents(cluster), lastTimestamp) IN
    /\ pc["events"] = "collect"
    /\ batch' = [batch EXCEPT !["events"] = r.events]
    /\ lastTimestamp' = r.newLastTimestamp
    /\ pc' = [pc EXCEPT !["events"] = "publish"]
    /\ UNCHANGED <<fnVars, second, now, cluster, callerVars, ctxDone, stopCtxDone, running, wg,
                   writerClosed, startPc, launched, stopPc, doneCh, stopBranch,
                   sent, ticks, recorder>>

\* The message the loop of source s builds for a record of its batch.
MessageOf(s, record) ==
  IF s = "events" THEN EventMessage(record) ELSE MetricMessage(record)

\* Whether a publish by the loop of source s can be acknowledged: a metric
\* goes through c.kafkaWriter, whose WriteMessages fails once it is closed;
\* an event goes through a writer sendEventToKafka creates for the call.
CanWrite(s) == s = "events" \/ ~writerClosed

\* Mutant of LoopPublish: a send that returned an error is made again for
\* the same record before the range loop moves on.
LoopPublishRetry(s, ok) ==
  /\ pc[s] = "publish"
  /\ ok => CanWrite(s)
  /\ \/ /\ sent[s] # <<>> /\ ~sent[s][Len(sent[s])].ok
        /\ sent' = [sent EXCEPT ![s] = [@ EXCEPT ![Len(@)].ok = ok]]
     \/ /\ Len(sent[s]) < Len(batch[s])
        /\ sent' = [sent EXCEPT ![s] =
                      Append(@, [msg |-> MessageOf(s, batch[s][Len(@) + 1]), ok |-> ok])]
  /\ UNCHANGED <<fnVars, second, now, cluster, lastTimestamp, callerVars, ctxDone, stopCtxDone,
                 running, wg, writerClosed, startPc, launched, stopPc, doneCh,
                 stopBranch, pc, batch, ticks, recorder>>

\* The body of the range loop for the next record of the batch: send it,
\* and on an error log it; ok tells whether the send returned nil.
LoopPublish(s, ok) ==
  /\ pc[s] = "publish"
  /\ Len(sent[s]) < Len(batch[s])
  /\ ok => CanWrite(s)
  /\ sent' = [sent EXCEPT ![s] =
                Append(@, [msg |-> MessageOf(s, batch[s][Len(@) + 1]), ok |-> ok])]
  /\ UNCHANGED <<fnVars, second, now, cluster, lastTimestamp, callerVars, ctxDone, stopCtxDone,
                 running, wg, writerClosed, startPc, launched, stopPc, doneCh,
                 stopBranch, pc, batch, ticks, recorder>>

\* Mutant of LoopFinish: a failed send breaks out of the range loop.
LoopFinishOnError(s) ==
  /\ pc[s] = "publish"
  /\ \/ Len(sent[s]) = Len(batch[s])
     \/ sent[s] # <<>> /\ ~sent[s][Len(sent[s])].ok
  /\ recorder' = RecordMetricCollection(recorder, s, Len(batch[s]), FALSE)
  /\ pc' = [pc EXCEPT ![s] = "select"]
  /\ batch' = [batch EXCEPT ![s] = <<>>]
  /\ sent' = [sent EXCEPT ![s] = <<>>]
  /\ UNCHANGED <<fnVars, second, now, cluster, lastTimestamp, callerVars, ctxDone, stopCtxDone,
                 running, wg, writerClosed, startPc, launched, stopPc, doneCh,
                 stopBranch, ticks>>

\* Mutant of LoopFinish: the count recorded is the number of records whose
\* publish was acknowledged.
LoopFinishCountPublished(s) ==
  /\ pc[s] = "publish"
  /\ Len(sent[s]) = Len(batch[s])
  /\ recorder' = RecordMetricCollection(recorder, s,
                    Cardinality({k \in 1..Len(sent[s]) : sent[s][k].ok}), FALSE)
  /\ pc' = [pc EXCEPT ![s] = "select"]
  /\ batch' = [batch EXCEPT ![s] = <<>>]
  /\ sent' = [sent EXCEPT ![s] = <<>>]
  /\ UNCHANGED <<fnVars, second, now, cluster, lastTimestamp, callerVars, ctxDone, stopCtxDone,
                 running, wg, writerClosed, startPc, launched, stopPc, doneCh,
                 stopBranch, ticks>>

\* The range loop is over: RecordMetricCollection(.., len(records), nil) and
\* back to the select.
LoopFinish(s) ==
  /\ pc[s] = "publish"
  /\ Len(sent[s]) = Len(batch[s])
  /\ recorder' = RecordMetricCollection(recorder, s, Len(batch[s]), FALSE)
  /\ pc' = [pc EXCEPT ![s] = "select"]
  /\ batch' = [batch EXCEPT ![s] = <<>>]
  /\ sent' = [sent EXCEPT ![s] = <<>>]
  /\ UNCHANGED <<fnVars, second, now, cluster, lastTimestamp, callerVars, ctxDone, stopCtxDone,
                 running, wg, writerClosed, startPc, launched, stopPc, doneCh,
                 stopBranch, ticks>>

\* ------------------------------------------- Collector: Start and Stop

\* The source whose loop Start launches next.
NextLaunch ==
  LaunchOrder[CHOOSE k \in 1..Len(LaunchOrder) :
                /\ pc[LaunchOrder[k]] = "idle"
                /\ \A j \in 1..(k - 1) : pc[LaunchOrder[j]] # "idle"]

\* Start is called: c.running = true.
StartBegin ==
  /\ startPc = "idle"
  /\ running' = TRUE
  /\ startPc' = "launching"
  /\ UNCHANGED <<fnVars, second, now, cluster, lastTimestamp, callerVars, ctxDone, stopCtxDone,
                 wg, writerClosed, launched, stopPc, doneCh, stopBranch, pc,
                 batch, sent, ticks, recorder>>

\* c.wg.Add(1); go c.collectX(ctx): the loop of the next source starts, its
\* ticker created, at its select. After the last one Start waits on
\* <-ctx.Done().
StartLaunch ==
  /\ startPc = "launching"
  /\ wg' = wg + 1
  /\ launched' = [launched EXCEPT ![NextLaunch] = @ + 1]
  /\ pc' = [pc EXCEPT ![NextLaunch] = "select"]
  /\ startPc' = IF NextLaunch = LaunchOrder[Len(LaunchOrder)]
                THEN "blocked" ELSE "launching"
  /\ UNCHANGED <<fnVars, second, now, cluster, lastTimestamp, callerVars, ctxDone, stopCtxDone,
                 running, writerClosed, stopPc, doneCh, stopBranch, batch, sent,
                 ticks, recorder>>

\* Mutant of StartReturn: Start returns once the loops are launched.
StartReturnEarly ==
  /\ startPc = "blocked"
  /\ startPc' = "returned"
  /\ UNCHANGED <<fnVars, second, now, cluster, lastTimestamp, callerVars, ctxDone, stopCtxDone,
                 running, wg, writerClosed, launched, stopPc, doneCh, stopBranch,
                 pc, batch, sent, ticks, recorder>>

\* <-ctx.Done() is taken: Start returns nil.
StartReturn ==
  /\ startPc = "blocked"
  /\ ctxDone
  /\ startPc' = "returned"
  /\ UNCHANGED <<fnVars, second, now, cluster, lastTimestamp, callerVars, ctxDone, stopCtxDone,
                 running, wg, writerClosed, launched, stopPc, doneCh, stopBranch,
                 pc, batch, sent, ticks, recorder>>

\* The source whose loop the second call of Start launches next.
SecondNextLaunch ==
  LaunchOrder[CHOOSE k \in 1..Len(LaunchOrder) :
                /\ second.pc[LaunchOrder[k]] = "idle"
                /\ \A j \in 1..(k - 1) : second.pc[LaunchOrder[j]] # "idle"]

\* Start is called again on the Collector, with the same context, after it
\* has been called once: Start tests nothing, and sets c.running = true.
SecondStartBegin ==
  /\ startPc # "idle"
  /\ second.startPc = "idle"
  /\ running' = TRUE
  /\ second' = [second EXCEPT !.startPc = "launching"]
  /\ UNCHANGED <<fnVars, now, cluster, lastTimestamp, callerVars, ctxDone, stopCtxDone,
                 wg, writerClosed, startPc, launched, stopPc, doneCh, stopBranch, pc,
                 batch, sent, ticks, recorder>>

\* The second call's c.wg.Add(1); go c.collectX(ctx): one more loop of the
\* next source starts, at its select.
SecondStartLaunch ==
  /\ second.startPc = "launching"
  /\ wg' = wg + 1
  /\ launched' = [launched EXCEPT ![SecondNextLaunch] = @ + 1]
  /\ second' = [startPc |-> IF SecondNextLaunch = LaunchOrder[Len(LaunchOrder)]
                            THEN "blocked" ELSE "launching",
                pc |-> [second.pc EXCEPT ![SecondNextLaunch] = "select"]]
  /\ UNCHANGED <<fnVars, now, cluster, lastTimestamp, callerVars, ctxDone, stopCtxDone,
                 running, writerClosed, startPc, stopPc, doneCh, stopBranch, pc,
                 batch, sent, ticks, recorder>>

\* The second call takes <-ctx.Done() and returns nil.
SecondStartReturn ==
  /\ second.startPc = "blocked"
  /\ ctxDone
  /\ second' = [second EXCEPT !.startPc = "returned"]
  /\ UNCHANGED <<fnVars, now, cluster, lastTimestamp, callerVars, ctxDone, stopCtxDone,
                 running, wg, writerClosed, startPc, launched, stopPc, doneCh,
                 stopBranch, pc, batch, sent, ticks, recorder>>

\* A loop of the second call takes <-ctx.Done(): return, and wg.Done().
SecondLoopExit(s) ==
  /\ second.pc[s] = "select"
  /\ ctxDone
  /\ second' = [second EXCEPT !.pc[s] = "exited"]
  /\ wg' = wg - 1
  /\ UNCHANGED <<fnVars, now, cluster, lastTimestamp, callerVars, ctxDone, stopCtxDone,
                 running, writerClosed, startPc, launched, stopPc, doneCh,
                 stopBranch, pc, batch, sent, ticks, recorder>>

\* A loop of the second call takes <-ticker.C and goes through a cycle,
\* taken here as one step. failed tells whether Collect returned an error
\* and n how many metrics a node or pod collection returned; the events
\* loop calls the same EventCollector and moves its watermark; the system
\* loop records its three metrics.
SecondLoopCycle(s, n, failed) ==
  LET r == Collect(ListEvents(cluster), lastTimestamp)
      count == IF failed THEN 0
               ELSE IF s = "system" THEN SystemMetricCount
               ELSE IF s = "events" THEN Len(r.events)
               ELSE n
  IN
    /\ second.pc[s] = "select"
    /\ s = "system" => ~failed
    /\ s \notin {"nodes", "pods"} \/ failed => n = 0
    /\ ticks' = ticks + 1
    /\ lastTimestamp' = IF s = "events" /\ ~failed
                        THEN r.newLastTimestamp ELSE lastTimestamp
    /\ recorder' = RecordMetricCollection(recorder, s, count, failed)
    /\ UNCHANGED <<fnVars, second, now, cluster, callerVars, ctxDone, stopCtxDone,
                   running, wg, writerClosed, startPc, launched, stopPc, doneCh,
                   stopBranch, pc, batch, sent>>

\* Mutant of StopBegin: Stop also resets the EventCollector's watermark.
StopBeginReset ==
  /\ stopPc = "idle"
  /\ running' = FALSE
  /\ doneCh' = "open"
  /\ stopPc' = "select"
  /\ lastTimestamp' = now - FiveMinutes
  /\ UNCHANGED <<fnVars, second, now, cluster, callerVars, ctxDone, stopCtxDone,
                 wg, writerClosed, startPc, launched, stopBranch, pc, batch,
                 sent, ticks, recorder>>

\* Stop is called: c.running = false, the done channel is made and the
\* goroutine that waits on c.wg is started.
StopBegin ==
  /\ stopPc = "idle"
  /\ running' = FALSE
  /\ doneCh' = "open"
  /\ stopPc' = "select"
  /\ UNCHANGED <<fnVars, second, now, cluster, lastTimestamp, callerVars, ctxDone, stopCtxDone,
                 wg, writerClosed, startPc, launched, stopBranch, pc, batch,
                 sent, ticks, recorder>>

\* Stop's goroutine: c.wg.Wait() returns, the counter being zero, and
\* close(done).
StopWaiter ==
  /\ doneCh = "open"
  /\ wg = 0
  /\ doneCh' = "closed"
  /\ UNCHANGED <<fnVars, second, now, cluster, lastTimestamp, callerVars, ctxDone, stopCtxDone,
                 running, wg, writerClosed, startPc, launched, stopPc,
                 stopBranch, pc, batch, sent, ticks, recorder>>

\* Stop's select: <-done ("All collection routines stopped") or <-ctx.Done()
\* ("Timeout waiting for collection routines to stop").
StopSelect ==
  /\ stopPc = "select"
  /\ \/ doneCh = "closed" /\ stopBranch' = "stopped"
     \/ stopCtxDone /\ stopBranch' = "timeout"
  /\ stopPc' = "close"
  /\ UNCHANGED <<fnVars, second, now, cluster, lastTimestamp, callerVars, ctxDone, stopCtxDone,
                 running, wg, writerClosed, startPc, launched, doneCh, pc, batch,
                 sent, ticks, recorder>>

\* c.kafkaWriter.Close(), and Stop returns nil.
StopClose ==
  /\ stopPc = "close"
  /\ writerClosed' = TRUE
  /\ stopPc' = "returned"
  /\ UNCHANGED <<fnVars, second, now, cluster, lastTimestamp, callerVars, ctxDone, stopCtxDone,
                 running, wg, startPc, launched, doneCh, stopBranch, pc, batch,
                 sent, ticks, recorder>>

\* The caller of Start cancels the context it passed (main: cancel()).
Cancel ==
  /\ ~ctxDone
  /\ ctxDone' = TRUE
  /\ UNCHANGED <<fnVars, second, now, cluster, lastTimestamp, callerVars, stopCtxDone, running,
                 wg, writerClosed, startPc, launched, stopPc, doneCh, stopBranch,
                 pc, batch, sent, ticks, recorder>>

\* The deadline of the context passed to Stop expires (main: shutdownCtx).
\* Only Stop's select reads it, so an expiry before Stop reaches its select
\* is taken there.
StopDeadline ==
  /\ ~stopCtxDone
  /\ stopPc = "select"
  /\ stopCtxDone' = TRUE
  /\ UNCHANGED <<fnVars, second, now, cluster, lastTimestamp, callerVars, ctxDone, running, wg,
                 writerClosed, startPc, launched, stopPc, doneCh, stopBranch, pc,
                 batch, sent, ticks, recorder>>

\* The cluster reports a new event, stamped with the current time. Only the
\* events loop's listing reads the cluster's events, so an event that
\* appears between two listings is taken just before the later one.
ClusterReports ==
  /\ pc["events"] = "collect"
  /\ \E u \in Uids : EventAppears(u, now)

\* ----------------------------------------------------------- specifications

\* NewCollector: the writer open, nothing running, no loop launched, and
\* NewEventCollector's lastTimestamp = time.Now().Add(-5 * time.Minute).
NewCollector ==
  /\ cluster \in [Uids -> {NoEvent}]
  /\ lastTimestamp = now - FiveMinutes
  /\ ecEvents = <<>>
  /\ ecErr = FALSE
  /\ lastOp = "New"
  /\ ctxDone = FALSE
  /\ stopCtxDone = FALSE
  /\ running = FALSE
  /\ wg = 0
  /\ writerClosed = FALSE
  /\ startPc = "idle"
  /\ launched = [s \in Sources |-> 0]
  /\ stopPc = "idle"
  /\ doneCh = "none"
  /\ stopBranch = "none"
  /\ pc = [s \in Sources |-> "idle"]
  /\ batch = [s \in Sources |-> <<>>]
  /\ sent = [s \in Sources |-> <<>>]
  /\ ticks = 0
  /\ recorder = [s \in Sources |-> [collected |-> 0, observations |-> 0, errors |-> 0]]
  /\ second = [startPc |-> "idle", pc |-> [s \in Sources |-> "idle"]]

\* No function has been applied on its own.
NoCall ==
  /\ call = "none"
  /\ args = "none"
  /\ result = "none"

InitEC ==
  /\ now \in FiveMinutes..(FiveMinutes + 1)
  /\ NewCollector
  /\ NoCall

\* The EventCollector driven by a direct caller of its methods.
NextEC ==
  \/ ECCollectOk
  \/ ECCollectFail
  \/ Reset
  \/ \E t \in Times : SetLastTimestamp(t)
  \/ ClockTick
  \/ \E u \in Uids, t \in Times : EventAppears(u, t)
  \/ \E u \in Uids, t \in Times : EventRecurs(u, t)

SpecEC == InitEC /\ [][NextEC]_vars

Init ==
  /\ now = FiveMinutes
  /\ NewCollector
  /\ NoCall

\* The Collector service: one Start and one Stop, called in any order and
\* at any moment by their callers, the loops, and the cluster reporting new
\* events stamped with the current time.
Next ==
  \/ StartBegin
  \/ StartLaunch
  \/ StartReturn
  \/ StopBegin
  \/ StopWaiter
  \/ StopSelect
  \/ StopClose
  \/ Cancel
  \/ StopDeadline
  \/ SystemTick
  \/ \E s \in Sources : LoopExit(s)
  \/ \E s \in Collecting : LoopTick(s)
  \/ \E s \in Collecting : LoopCollectFail(s)
  \/ \E s \in {"nodes", "pods"}, n \in 0..MaxBatch : LoopCollectMetrics(s, n)
  \/ LoopCollectEvents
  \/ \E s \in Collecting, ok \in BOOLEAN : LoopPublish(s, ok)
  \/ \E s \in Collecting : LoopFinish(s)
  \/ ClusterReports

Spec == Init /\ [][Next]_vars

\* Stop is called once Start has launched its four loops.
StopAfterLaunch ==
  /\ startPc \in {"blocked", "returned"}
  /\ StopBegin

\* The Collector service when Stop is called only after Start has launched
\* its four loops (and whether or not Start's context has been cancelled).
NextSequential ==
  \/ StartBegin
  \/ StartLaunch
  \/ StartReturn
  \/ StopAfterLaunch
  \/ StopWaiter
  \/ StopSelect
  \/ StopClose
  \/ Cancel
  \/ StopDeadline
  \/ SystemTick
  \/ \E s \in Sources : LoopExit(s)
  \/ \E s \in Collecting : LoopTick(s)
  \/ \E s \in Collecting : LoopCollectFail(s)
  \/ \E s \in {"nodes", "pods"}, n \in 0..MaxBatch : LoopCollectMetrics(s, n)
  \/ LoopCollectEvents
  \/ \E s \in Collecting, ok \in BOOLEAN : LoopPublish(s, ok)
  \/ \E s \in Collecting : LoopFinish(s)
  \/ ClusterReports

SpecSequential == Init /\ [][NextSequential]_vars

\* The Collector service while nobody calls Stop: Start, the cancellation of
\* its context, the loops and the cluster.
NextRun ==
  \/ StartBegin
  \/ StartLaunch
  \/ StartReturn
  \/ Cancel
  \/ SystemTick
  \/ \E s \in Sources : LoopExit(s)
  \/ \E s \in Collecting : LoopTick(s)
  \/ \E s \in Collecting : LoopCollectFail(s)
  \/ \E s \in {"nodes", "pods"}, n \in 0..MaxBatch : LoopCollectMetrics(s, n)
  \/ LoopCollectEvents
  \/ \E s \in Collecting, ok \in BOOLEAN : LoopPublish(s, ok)
  \/ \E s \in Collecting : LoopFinish(s)
  \/ ClusterReports

SpecRun == Init /\ [][NextRun]_vars

\* The Collector service when Start is called a second time: one Stop, the
\* cancellation and the deadline as before, the loops of both calls, the
\* tickers delivering MaxRunTicks ticks and a collection returning at most
\* MaxRunBatch metrics.
NextRestart ==
  \/ StartBegin
  \/ StartLaunch
  \/ StartReturn
  \/ SecondStartBegin
  \/ SecondStartLaunch
  \/ SecondStartReturn
  \/ StopBegin
  \/ StopWaiter
  \/ StopSelect
  \/ StopClose
  \/ Cancel
  \/ StopDeadline
  \/ ticks < MaxRunTicks /\ SystemTick
  \/ \E s \in Sources : LoopExit(s)
  \/ \E s \in Collecting : ticks < MaxRunTicks /\ LoopTick(s)
  \/ \E s \in Collecting : LoopCollectFail(s)
  \/ \E s \in {"nodes", "pods"}, n \in 0..MaxRunBatch : LoopCollectMetrics(s, n)
  \/ LoopCollectEvents
  \/ \E s \in Collecting, ok \in BOOLEAN : LoopPublish(s, ok)
  \/ \E s \in Collecting : LoopFinish(s)
  \/ \E s \in Sources : SecondLoopExit(s)
  \/ \E s \in Sources, n \in 0..MaxRunBatch, failed \in BOOLEAN :
       ticks < MaxRunTicks /\ SecondLoopCycle(s, n, failed)
  \/ ClusterReports

SpecRestart == Init /\ [][NextRestart]_vars

\* ---------------------------------------- NodeCollector and PodCollector

\* A models.Metric of source "kubernetes"; a value is kept in thousandths
\* (Float64), the labels as a record.
Metric(name, value, labels, timestamp, type) ==
  [name |-> name, value |-> value, labels |-> labels, timestamp |-> timestamp,
   source |-> "kubernetes", type |-> type]

\* float64(n), in thousandths.
Float64(n) == n * MilliPerCore

\* The metric appended under "if q := ...; !q.IsZero()": none for a zero (or
\* missing) quantity.
QuantityMetric(q, name, value, labels, timestamp) ==
  IF q # 0 THEN <<Metric(name, value, labels, timestamp, "gauge")>> ELSE <<>>

\* The first entry of a node usage listing's Items named as the node, as a
\* sequence of at most one entry (the range loop with its break).
RECURSIVE FirstNodeEntry(_, _)
FirstNodeEntry(items, name) ==
  IF items = <<>> THEN <<>>
  ELSE IF Head(items).name = name THEN <<Head(items)>>
  ELSE FirstNodeEntry(Tail(items), name)

\* Mutant of ConditionMetrics: 0 for the status False only.
ConditionMetricsNotFalse(name, conditions, labels, timestamp) ==
  [i \in 1..Len(conditions) |->
     Metric(name,
            IF conditions[i].status = "False" THEN Float64(0) ELSE Float64(1),
            [object |-> labels, condition |-> conditions[i].type,
             status |-> conditions[i].status, reason |-> conditions[i].reason],
            timestamp, "gauge")]

\* The node_condition (or pod_condition) metrics, one per condition: 1 for
\* the status True, 0 otherwise.
ConditionMetrics(name, conditions, labels, timestamp) ==
  [i \in 1..Len(conditions) |->
     Metric(name,
            IF conditions[i].status = "True" THEN Float64(1) ELSE Float64(0),
            [object |-> labels, condition |-> conditions[i].type,
             status |-> conditions[i].status, reason |-> conditions[i].reason],
            timestamp, "gauge")]

\* Mutant of NodeUsageMetrics: a node without usage data gets usage metrics
\* of value zero.
NodeUsageMetricsZero(node, nodeMetrics, labels, timestamp) ==
  LET found == IF nodeMetrics.isNil THEN <<>>
               ELSE FirstNodeEntry(nodeMetrics.items, node.name)
  IN IF found = <<>>
     THEN <<Metric("node_cpu_usage_cores", 0, labels, timestamp, "gauge"),
            Metric("node_memory_usage_bytes", 0, labels, timestamp, "gauge")>>
     ELSE QuantityMetric(found[1].cpu, "node_cpu_usage_cores",
                         Float64(found[1].cpu) \div MilliPerCore, labels, timestamp)
          \o QuantityMetric(found[1].memory, "node_memory_usage_bytes",
                            Float64(found[1].memory), labels, timestamp)

\* "Node usage metrics (if available)": for a listing that is not nil, the
\* CPU and memory usage of the first entry named as the node, each when it is
\* not zero.
NodeUsageMetrics(node, nodeMetrics, labels, timestamp) ==
  LET found == IF nodeMetrics.isNil THEN <<>>
               ELSE FirstNodeEntry(nodeMetrics.items, node.name)
  IN IF found = <<>> THEN <<>>
     ELSE QuantityMetric(found[1].cpu, "node_cpu_usage_cores",
                         Float64(found[1].cpu) \div MilliPerCore, labels, timestamp)
          \o QuantityMetric(found[1].memory, "node_memory_usage_bytes",
                            Float64(found[1].memory), labels, timestamp)

\* NodeCollector.collectNodeMetrics: the metrics of one node, in the order
\* they are appended.
collectNodeMetrics(node, nodeMetrics, timestamp) ==
  LET labels == [node |-> node.name] IN
    QuantityMetric(node.capacity.cpu, "node_cpu_capacity_cores",
                   Float64(node.capacity.cpu) \div MilliPerCore, labels, timestamp)
    \o QuantityMetric(node.capacity.memory, "node_memory_capacity_bytes",
                      Float64(node.capacity.memory), labels, timestamp)
    \o QuantityMetric(node.capacity.storage, "node_storage_capacity_bytes",
                      Float64(node.capacity.storage), labels, timestamp)
    \o QuantityMetric(node.capacity.pods, "node_pod_capacity",
                      Float64(node.capacity.pods), labels, timestamp)
    \o QuantityMetric(node.allocatable.cpu, "node_cpu_allocatable_cores",
                      Float64(node.allocatable.cpu) \div MilliPerCore, labels, timestamp)
    \o QuantityMetric(node.allocatable.memory, "node_memory_allocatable_bytes",
                      Float64(node.allocatable.memory), labels, timestamp)
    \o ConditionMetrics("node_condition", node.conditions, labels, timestamp)
    \o NodeUsageMetrics(node, nodeMetrics, labels, timestamp)
    \o <<Metric("node_info", Float64(1), labels, timestamp, "gauge"),
         Metric("node_age_seconds",
                Float64((timestamp - node.created) * FiveMinutesSeconds),
                labels, timestamp, "gauge")>>
    \o [i \in 1..Len(node.taints) |->
          Metric("node_taint", Float64(1),
                 [object |-> labels, taint_key |-> node.taints[i].key,
                  taint_effect |-> node.taints[i].effect],
                 timestamp, "gauge")]

\* The range loop of NodeCollector.Collect over nodeList.Items.
RECURSIVE NodeCollectLoop(_, _, _)
NodeCollectLoop(items, nodeMetrics, timestamp) ==
  IF items = <<>> THEN <<>>
  ELSE collectNodeMetrics(Head(items), nodeMetrics, timestamp)
       \o NodeCollectLoop(Tail(items), nodeMetrics, timestamp)

\* Mutant of NodeCollect: a failed usage listing fails the collection.
NodeCollectStrict(a, timestamp) ==
  IF a.listErr \/ a.usage.err THEN [metrics |-> <<>>, err |-> TRUE]
  ELSE [metrics |-> NodeCollectLoop(a.objects, a.usage.list, timestamp),
        err |-> FALSE]

\* NodeCollector.Collect, a being what its two listings answer and timestamp
\* its time.Now(): nil and the error when the node listing fails; otherwise the metrics of every listed node, whether or not the usage
\* listing failed.
NodeCollect(a, timestamp) ==
  IF a.listErr THEN [metrics |-> <<>>, err |-> TRUE]
  ELSE [metrics |-> NodeCollectLoop(a.objects, a.usage.list, timestamp),
        err |-> FALSE]

\* The first entry of a pod usage listing's Items with the pod's name and
\* namespace, as a sequence of at most one entry.
RECURSIVE FirstPodEntry(_, _, _)
FirstPodEntry(items, name, namespace) ==
  IF items = <<>> THEN <<>>
  ELSE IF Head(items).name = name /\ Head(items).namespace = namespace
       THEN <<Head(items)>>
  ELSE FirstPodEntry(Tail(items), name, namespace)

\* Mutant of PhaseValue: a phase that is no case of the switch counts as
\* Unknown.
PhaseValueDefaultUnknown(phase) ==
  CASE phase = "Running" -> 1
    [] phase = "Pending" -> 2
    [] phase = "Succeeded" -> 3
    [] phase = "Failed" -> 4
    [] OTHER -> 5

\* The switch on pod.Status.Phase.
PhaseValue(phase) ==
  CASE phase = "Running" -> 1
    [] phase = "Pending" -> 2
    [] phase = "Succeeded" -> 3
    [] phase = "Failed" -> 4
    [] phase = "Unknown" -> 5
    [] OTHER -> 0

\* readyValue: 1 when the first condition of type Ready has the status True.
RECURSIVE ReadyValue(_)
ReadyValue(conditions) ==
  IF conditions = <<>> THEN 0
  ELSE IF Head(conditions).type = "Ready"
       THEN (IF Head(conditions).status = "True" THEN 1 ELSE 0)
  ELSE ReadyValue(Tail(conditions))

\* The request and limit metrics of the containers of pod.Spec.Containers.
RECURSIVE ContainerResourceMetrics(_, _, _)
ContainerResourceMetrics(containers, labels, timestamp) ==
  IF containers = <<>> THEN <<>>
  ELSE LET container == Head(containers)
           containerLabels == [object |-> labels, container |-> container.name]
       IN QuantityMetric(container.requests.cpu, "container_cpu_request_cores",
                         Float64(container.requests.cpu) \div MilliPerCore,
                         containerLabels, timestamp)
          \o QuantityMetric(container.requests.memory, "container_memory_request_bytes",
                            Float64(container.requests.memory), containerLabels, timestamp)
          \o QuantityMetric(container.limits.cpu, "container_cpu_limit_cores",
                            Float64(container.limits.cpu) \div MilliPerCore,
                            containerLabels, timestamp)
          \o QuantityMetric(container.limits.memory, "container_memory_limit_bytes",
                            Float64(container.limits.memory), containerLabels, timestamp)
          \o ContainerResourceMetrics(Tail(containers), labels, timestamp)

\* stateValue: Running 1, Waiting 2, Terminated 3, none of them 0.
StateValue(state) ==
  CASE state = "running" -> 1
    [] state = "waiting" -> 2
    [] state = "terminated" -> 3
    [] OTHER -> 0

\* Mutant of ContainerStatusMetrics: the restart count of a pod's first
\* container status stands for every container.
RECURSIVE ContainerStatusMetricsFirstCount(_, _, _)
ContainerStatusMetricsFirstCount(statuses, labels, timestamp) ==
  IF statuses = <<>> THEN <<>>
  ELSE LET containerStatus == Head(statuses)
           containerLabels == [object |-> labels, container |-> containerStatus.name]
           rest == ContainerStatusMetricsFirstCount(Tail(statuses), labels, timestamp)
       IN <<Metric("container_ready",
                   IF containerStatus.ready THEN Float64(1) ELSE Float64(0),
                   containerLabels, timestamp, "gauge"),
            Metric("container_restart_count", Float64(containerStatus.restartCount),
                   containerLabels, timestamp, "counter"),
            Metric("container_state", Float64(StateValue(containerStatus.state)),
                   containerLabels, timestamp, "gauge")>>
          \o [i \in 1..Len(rest) |->
                IF rest[i].name = "container_restart_count"
                THEN [rest[i] EXCEPT !.value = Float64(containerStatus.restartCount)]
                ELSE rest[i]]

\* The ready, restart-count and state metrics of pod.Status.ContainerStatuses.
RECURSIVE ContainerStatusMetrics(_, _, _)
ContainerStatusMetrics(statuses, labels, timestamp) ==
  IF statuses = <<>> THEN <<>>
  ELSE LET containerStatus == Head(statuses)
           containerLabels == [object |-> labels, container |-> containerStatus.name]
       IN <<Metric("container_ready",
                   IF containerStatus.ready THEN Float64(1) ELSE Float64(0),
                   containerLabels, timestamp, "gauge"),
            Metric("container_restart_count", Float64(containerStatus.restartCount),
                   containerLabels, timestamp, "counter"),
            Metric("container_state", Float64(StateValue(containerStatus.state)),
                   containerLabels, timestamp, "gauge")>>
          \o ContainerStatusMetrics(Tail(statuses), labels, timestamp)

\* totalCPU and totalMemory over the containers of a pod's usage entry.
RECURSIVE TotalUsage(_)
TotalUsage(containers) ==
  IF containers = <<>> THEN [cpu |-> 0, memory |-> 0]
  ELSE LET rest == TotalUsage(Tail(containers)) IN
         [cpu |-> Head(containers).cpu + rest.cpu,
          memory |-> Head(containers).memory + rest.memory]

\* The container-level usage metrics of a pod's usage entry.
RECURSIVE ContainerUsageMetrics(_, _, _)
ContainerUsageMetrics(containers, labels, timestamp) ==
  IF containers = <<>> THEN <<>>
  ELSE LET container == Head(containers)
           containerLabels == [object |-> labels, container |-> container.name]
       IN QuantityMetric(container.cpu, "container_cpu_usage_cores",
                         Float64(container.cpu) \div MilliPerCore,
                         containerLabels, timestamp)
          \o QuantityMetric(container.memory, "container_memory_usage_bytes",
                            Float64(container.memory), containerLabels, timestamp)
          \o ContainerUsageMetrics(Tail(containers), labels, timestamp)

\* "Pod usage metrics (if available)": for a listing that is not nil, the
\* pod-level totals, each when positive, and the container-level usage of
\* the first entry with the pod's name and namespace.
PodUsageMetrics(pod, podMetrics, labels, timestamp) ==
  LET found == IF podMetrics.isNil THEN <<>>
               ELSE FirstPodEntry(podMetrics.items, pod.name, pod.namespace)
  IN IF found = <<>> THEN <<>>
     ELSE LET total == TotalUsage(found[1].containers) IN
       (IF total.cpu > 0
        THEN <<Metric("pod_cpu_usage_cores", Float64(total.cpu) \div MilliPerCore,
                      labels, timestamp, "gauge")>>
        ELSE <<>>)
       \o (IF total.memory > 0
           THEN <<Metric("pod_memory_usage_bytes", Float64(total.memory),
                         labels, timestamp, "gauge")>>
           ELSE <<>>)
       \o ContainerUsageMetrics(found[1].containers, labels, timestamp)

\* PodCollector.collectPodMetrics: the metrics of one pod, in the order they
\* are appended.
collectPodMetrics(pod, podMetrics, timestamp) ==
  LET labels == [pod |-> pod.name, namespace |-> pod.namespace,
                 phase |-> pod.phase]
  IN <<Metric("pod_phase", Float64(PhaseValue(pod.phase)), labels, timestamp, "gauge"),
       Metric("pod_ready", Float64(ReadyValue(pod.conditions)), labels, timestamp,
              "gauge")>>
     \o ContainerResourceMetrics(pod.containers, labels, timestamp)
     \o ContainerStatusMetrics(pod.statuses, labels, timestamp)
     \o PodUsageMetrics(pod, podMetrics, labels, timestamp)
     \o <<Metric("pod_age_seconds",
                 Float64((timestamp - pod.created) * FiveMinutesSeconds),
                 labels, timestamp, "gauge")>>
     \o ConditionMetrics("pod_condition", pod.conditions, labels, timestamp)

\* The range loop of PodCollector.Collect over podList.Items.
RECURSIVE PodCollectLoop(_, _, _)
PodCollectLoop(items, podMetrics, timestamp) ==
  IF items = <<>> THEN <<>>
  ELSE collectPodMetrics(Head(items), podMetrics, timestamp)
       \o PodCollectLoop(Tail(items), podMetrics, timestamp)

\* PodCollector.Collect: nil and the error when the pod listing fails;
\* otherwise the metrics of every listed pod, whether or not the usage
\* listing failed.
PodCollect(a, timestamp) ==
  IF a.listErr THEN [metrics |-> <<>>, err |-> TRUE]
  ELSE [metrics |-> PodCollectLoop(a.objects, a.usage.list, timestamp),
        err |-> FALSE]

\* ------------------------------ NodeCollector and PodCollector: the inputs

\* The keys of the nodes, or of the pods, a cluster can hold.
ObjectKeys == 1..MaxObjects

\* The objects of the keys in present, in key order, object[k] being the
\* one of key k: the Items of a listing.
RECURSIVE ItemsFrom(_, _, _)
ItemsFrom(k, present, object) ==
  IF k > MaxObjects THEN <<>>
  ELSE (IF k \in present THEN <<object[k]>> ELSE <<>>)
       \o ItemsFrom(k + 1, present, object)

\* A node's capacity and allocatable: nothing reported, or 4000m CPU, 8Gi
\* of memory, storage and a pod count.
NodeResources ==
  <<[capacity |-> [cpu |-> 0, memory |-> 0, storage |-> 0, pods |-> 0],
     allocatable |-> [cpu |-> 0, memory |-> 0, storage |-> 0, pods |-> 0]],
    [capacity |-> [cpu |-> 4000, memory |-> 8, storage |-> 100, pods |-> 110],
     allocatable |-> [cpu |-> 3900, memory |-> 7, storage |-> 90, pods |-> 100]]>>

\* The conditions of a node's status with the taints of its spec.
NodeStates ==
  <<[conditions |-> <<>>, taints |-> <<>>],
    [conditions |-> <<[type |-> "Ready", status |-> "True", reason |-> "Ok"]>>,
     taints |-> <<>>],
    [conditions |-> <<[type |-> "MemoryPressure", status |-> "False", reason |-> "Ok"],
                      [type |-> "Ready", status |-> "Unknown", reason |-> "Lost"],
                      [type |-> "DiskPressure", status |-> "", reason |-> ""]>>,
     taints |-> <<[key |-> "unreachable", effect |-> "NoSchedule"]>>]>>

\* The shapes of a node: its resources and its state.
NodeShapes == (1..Len(NodeResources)) \X (1..Len(NodeStates))

\* The node of key k and of the shape: its name is k.
Node(k, shape) ==
  [name |-> k,
   capacity |-> NodeResources[shape[1]].capacity,
   allocatable |-> NodeResources[shape[1]].allocatable,
   conditions |-> NodeStates[shape[2]].conditions,
   taints |-> NodeStates[shape[2]].taints,
   created |-> 0]

\* What Nodes().List can return as Items: some of the nodes, each of some
\* shape.
NodeListings ==
  UNION {{ItemsFrom(1, present, [k \in present |-> Node(k, shape[k])]) :
            shape \in [present -> NodeShapes]}
         : present \in SUBSET ObjectKeys}

\* The usage the metrics API can report for a node: none, CPU only, CPU and
\* memory.
NodeUsages ==
  {[cpu |-> 0, memory |-> 0], [cpu |-> 250, memory |-> 0],
   [cpu |-> 250, memory |-> 2]}

\* What NodeMetricses().List can return as Items: an entry for some of the
\* nodes.
NodeUsageListings ==
  UNION {{ItemsFrom(1, present,
                    [k \in present |->
                       [name |-> k, cpu |-> usage[k].cpu, memory |-> usage[k].memory]]) :
            usage \in [present -> NodeUsages]}
         : present \in SUBSET ObjectKeys}

\* The outcomes of a usage listing: an error, with a nil or an empty list,
\* or a list of entries.
UsageOutcomes(listings) ==
  {[err |-> TRUE, list |-> [isNil |-> n, items |-> <<>>]] : n \in BOOLEAN}
  \cup {[err |-> FALSE, list |-> [isNil |-> FALSE, items |-> l]] : l \in listings}

\* The name and namespace of the pod of key k: two pods of consecutive keys
\* share a name, in different namespaces.
PodName(k) == (k + 1) \div 2

PodNamespace(k) == IF k % 2 = 1 THEN "default" ELSE "kube-system"

\* The conditions of a pod's status, the containers of its spec and the
\* statuses of its status: no condition and one container with requests
\* and limits, running; or Ready and two containers, restarted, the second
\* without resources.
PodStates ==
  <<[conditions |-> <<>>,
     containers |-> <<[name |-> "app", requests |-> [cpu |-> 100, memory |-> 1],
                       limits |-> [cpu |-> 200, memory |-> 2]]>>,
     statuses |-> <<[name |-> "app", ready |-> TRUE, restartCount |-> 0,
                     state |-> "running"]>>],
    [conditions |-> <<[type |-> "Ready", status |-> "True", reason |-> "Ok"]>>,
     containers |-> <<[name |-> "app", requests |-> [cpu |-> 100, memory |-> 0],
                       limits |-> [cpu |-> 0, memory |-> 2]],
                      [name |-> "sidecar", requests |-> [cpu |-> 0, memory |-> 0],
                       limits |-> [cpu |-> 0, memory |-> 0]]>>,
     statuses |-> <<[name |-> "app", ready |-> FALSE, restartCount |-> 3,
                     state |-> "waiting"],
                    [name |-> "sidecar", ready |-> TRUE, restartCount |-> 1,
                     state |-> "terminated"]>>]>>

\* The phases of a pod's status; "" is the phase not set, "Evicted" one
\* that the API does not define.
PodPhases == {"Running", "Pending", "Succeeded", "Failed", "Unknown", "", "Evicted"}

\* The shapes of a pod: its phase and its state; a pod whose containers
\* have restarted is Running or Failed.
PodShapes ==
  {shape \in PodPhases \X (1..Len(PodStates)) :
     shape[2] = 1 \/ shape[1] \in {"Running", "Failed"}}

\* The pod of key k and of the shape.
Pod(k, shape) ==
  [name |-> PodName(k), namespace |-> PodNamespace(k), phase |-> shape[1],
   conditions |-> PodStates[shape[2]].conditions,
   containers |-> PodStates[shape[2]].containers,
   statuses |-> PodStates[shape[2]].statuses,
   created |-> 0]

\* What Pods("").List can return as Items: some of the pods, each of some
\* shape.
PodListings ==
  UNION {{ItemsFrom(1, present, [k \in present |-> Pod(k, shape[k])]) :
            shape \in [present -> PodShapes]}
         : present \in SUBSET ObjectKeys}

\* The usage the metrics API can report for a pod's containers: none, one
\* container's, two containers'.
PodUsages ==
  {<<[name |-> "app", cpu |-> 0, memory |-> 0]>>,
   <<[name |-> "app", cpu |-> 100, memory |-> 1]>>,
   <<[name |-> "app", cpu |-> 100, memory |-> 0],
     [name |-> "sidecar", cpu |-> 50, memory |-> 0]>>}

\* What PodMetricses("").List can return as Items: an entry for some of the
\* pods.
PodUsageListings ==
  UNION {{ItemsFrom(1, present,
                    [k \in present |->
                       [name |-> PodName(k), namespace |-> PodNamespace(k),
                        containers |-> usage[k]]]) :
            usage \in [present -> PodUsages]}
         : present \in SUBSET ObjectKeys}

\* A direct caller's NodeCollector.Collect.
NodeCollectorCollect ==
  /\ call = "none"
  /\ args.kind = "nodes"
  /\ call' = "NodeCollector.Collect"
  /\ result' = NodeCollect(args, now)
  /\ UNCHANGED <<serviceVars, args>>

\* A direct caller's PodCollector.Collect.
PodCollectorCollect ==
  /\ call = "none"
  /\ args.kind = "pods"
  /\ call' = "PodCollector.Collect"
  /\ result' = PodCollect(args, now)
  /\ UNCHANGED <<serviceVars, args>>

\* What a Collect of the NodeCollector (kind "nodes") or of the PodCollector
\* (kind "pods") gets from the cluster: the object listing fails, or it
\* returns objects and the usage listing has one of its outcomes.
InitMetrics ==
  /\ now = FiveMinutes
  /\ NewCollector
  /\ call = "none"
  /\ \E kind \in {"nodes", "pods"}, listErr \in BOOLEAN :
       \E objects \in (IF listErr THEN {<<>>}
                        ELSE IF kind = "nodes" THEN NodeListings ELSE PodListings),
          usage \in (IF listErr
                      THEN {[err |-> TRUE, list |-> [isNil |-> TRUE, items |-> <<>>]]}
                      ELSE UsageOutcomes(IF kind = "nodes" THEN NodeUsageListings
                                         ELSE PodUsageListings)) :
         args = [kind |-> kind, listErr |-> listErr, objects |-> objects,
                 usage |-> usage]
  /\ result = "none"

NextMetrics ==
  \/ NodeCollectorCollect
  \/ PodCollectorCollect

\* The NodeCollector and the PodCollector, each called once on what the
\* cluster answers.
SpecMetrics == InitMetrics /\ [][NextMetrics]_vars

\* ------------------------------------------------- initKubernetesClients

\* A credentials-file path a configuration names, and a HOME directory.
ExplicitPath == "/etc/sentinel/kubeconfig"

HomeDir == "/home/sentinel"

\* homeDir + "/.kube/config", a path being the sequence of its parts.
KubeConfigPath(homeDir) == <<homeDir, "/.kube/config">>

\* configPath: cfg.ConfigPath, or when that is empty the file under HOME,
\* under /root when HOME is empty.
ConfigPath(a) ==
  IF a.configPath # "" THEN <<a.configPath>>
  ELSE KubeConfigPath(IF a.home = "" THEN "/root" ELSE a.home)

\* The credentials-file paths of the model.
Paths == {<<ExplicitPath>>, KubeConfigPath(HomeDir), KubeConfigPath("/root")}

\* What initKubernetesClients is given and what its environment answers:
\* cfg.InCluster and cfg.ConfigPath, HOME, whether rest.InClusterConfig
\* succeeds, the files os.Stat finds, and whether BuildConfigFromFlags,
\* kubernetes.NewForConfig and versioned.NewForConfig succeed.
ClientInputs ==
  [kind : {"clients"}, inCluster : BOOLEAN, configPath : {"", ExplicitPath},
   home : {"", HomeDir}, discovery : BOOLEAN, files : SUBSET Paths,
   buildOk : BOOLEAN, kubeOk : BOOLEAN, metricsOk : BOOLEAN]

\* A return of initKubernetesClients with an error: its message, the error
\* it wraps, and the sources consulted before.
ClientError(message, wraps, consulted) ==
  [ok |-> FALSE, source |-> "none", message |-> message, wraps |-> wraps,
   consulted |-> consulted]

\* The end of initKubernetesClients, a configuration of the given source in
\* hand: the two NewForConfig calls.
NewForConfig(a, source, consulted) ==
  IF ~a.kubeOk
  THEN ClientError("failed to create Kubernetes client", "kubeErr", consulted)
  ELSE IF ~a.metricsOk
  THEN ClientError("failed to create metrics client", "metricsErr", consulted)
  ELSE [ok |-> TRUE, source |-> source, message |-> "", wraps |-> "nil",
        consulted |-> consulted]

\* The body of "if config == nil": the file-based configuration, err being
\* the error rest.InClusterConfig left ("nil" when it was not called).
FileConfig(a, err, consulted) ==
  LET configPath == ConfigPath(a)
      seen == Append(consulted, <<"file", configPath>>)
  IN IF configPath \in a.files
     THEN IF a.buildOk THEN NewForConfig(a, "file", seen)
          ELSE ClientError("failed to build config from file", "buildErr", seen)
     ELSE IF a.inCluster
     THEN ClientError("in-cluster config failed and no kubeconfig file found",
                      err, seen)
     ELSE ClientError("kubeconfig file not found", "statErr", seen)

\* Mutant of initKubernetesClients: a failed in-cluster discovery is
\* returned at once.
initKubernetesClientsFailFast(a) ==
  IF a.inCluster
  THEN IF a.discovery THEN NewForConfig(a, "inCluster", <<<<"inCluster">>>>)
       ELSE ClientError("failed to load in-cluster config", "inClusterErr",
                        <<<<"inCluster">>>>)
  ELSE FileConfig(a, "nil", <<>>)

\* Mutant of initKubernetesClients: the credentials file is tried first.
initKubernetesClientsFileFirst(a) ==
  IF ConfigPath(a) \in a.files THEN FileConfig(a, "nil", <<>>)
  ELSE IF a.inCluster
  THEN IF a.discovery THEN NewForConfig(a, "inCluster", <<<<"inCluster">>>>)
       ELSE FileConfig(a, "inClusterErr", <<<<"inCluster">>>>)
  ELSE FileConfig(a, "nil", <<>>)

\* initKubernetesClients: in-cluster discovery when cfg.InCluster, its error
\* only logged; the file-based configuration when no configuration is in
\* hand; then the clients.
initKubernetesClients(a) ==
  IF a.inCluster
  THEN IF a.discovery THEN NewForConfig(a, "inCluster", <<<<"inCluster">>>>)
       ELSE FileConfig(a, "inClusterErr", <<<<"inCluster">>>>)
  ELSE FileConfig(a, "nil", <<>>)

\* A direct caller's initKubernetesClients.
InitKubernetesClients ==
  /\ call = "none"
  /\ call' = "initKubernetesClients"
  /\ result' = initKubernetesClients(args)
  /\ UNCHANGED <<serviceVars, args>>

InitClients ==
  /\ now = FiveMinutes
  /\ NewCollector
  /\ call = "none"
  /\ args \in ClientInputs
  /\ result = "none"

NextClients == InitKubernetesClients

\* initKubernetesClients called once, on every configuration and
\* environment.
SpecClients == InitClients /\ [][NextClients]_vars

\* ------------------------------- determineSeverity and generateEventID

\* The reasons of the first case of determineSeverity's switch on a
\* Warning event's reason (EventSeverityError).
ErrorReasons ==
  {"Failed", "FailedScheduling", "FailedMount", "FailedAttachVolume",
   "FailedDetachVolume", "FailedCreate", "FailedDelete", "Unhealthy",
   "BackOff", "Evicted", "Preempting", "OutOfDisk", "FreeDiskSpaceFailed"}

\* The reasons of its second case (EventSeverityCritical).
CriticalReasons ==
  {"Killing", "NetworkNotReady", "NodeNotReady", "Rebooted",
   "NodeAllocatableEnforced", "SystemOOM", "ContainerGCFailed"}

\* The reasons named by the switch on a Normal event's reason.
NormalReasons ==
  {"Started", "Created", "Scheduled", "Pulled", "SuccessfulCreate",
   "SuccessfulDelete", "SuccessfulMount", "SuccessfulAttach", "NodeReady",
   "LeaderElection", "RegisteredNode"}

\* Mutant of determineSeverity: the reason is looked at before the type.
determineSeverityReasonFirst(kubeEvent) ==
  IF kubeEvent.reason \in ErrorReasons THEN "error"
  ELSE IF kubeEvent.reason \in CriticalReasons THEN "critical"
  ELSE IF kubeEvent.type = "Warning" THEN "warning"
  ELSE "info"

\* determineSeverity: the switch on the reason under the Warning type, its
\* cases tried in order; info for the Normal type, in each case of its
\* switch, and for any other type.
determineSeverity(kubeEvent) ==
  IF kubeEvent.type = "Warning"
  THEN IF kubeEvent.reason \in ErrorReasons THEN "error"
       ELSE IF kubeEvent.reason \in CriticalReasons THEN "critical"
       ELSE "warning"
  ELSE IF kubeEvent.type = "Normal"
  THEN IF kubeEvent.reason \in NormalReasons THEN "info" ELSE "info"
  ELSE "info"

\* The events determineSeverity is applied to: the types Normal and Warning
\* and the type not set, with every reason the switches name, one they do
\* not, and none.
SeverityInputs ==
  [kind : {"severity"}, type : {"Normal", "Warning", ""},
   reason : ErrorReasons \cup CriticalReasons \cup NormalReasons \cup {"Pulling", ""}]

\* A string of n characters c; a string is the sequence of its characters.
Text(n, c) == [i \in 1..n |-> c]

\* The decimal digits.
Digit == <<"0", "1", "2", "3", "4", "5", "6", "7", "8", "9">>

\* Sprintf("%d", n) for n >= 0.
RECURSIVE Decimal(_)
Decimal(n) ==
  IF n < 10 THEN <<Digit[n + 1]>>
  ELSE Append(Decimal(n \div 10), Digit[(n % 10) + 1])

\* baseID: Sprintf("%s-%s-%s-%s-%d", Namespace, InvolvedObject.Name, Reason,
\* InvolvedObject.UID, FirstTimestamp.Unix()).
BaseID(kubeEvent) ==
  kubeEvent.namespace \o <<"-">> \o kubeEvent.name \o <<"-">>
  \o kubeEvent.reason \o <<"-">> \o kubeEvent.uid \o <<"-">>
  \o Decimal(kubeEvent.firstTimestamp)

\* Mutant of generateEventID: a base ID of exactly the limit is replaced
\* too.
generateEventIDAtLimit(kubeEvent, random) ==
  IF Len(BaseID(kubeEvent)) >= IdLimit THEN random ELSE BaseID(kubeEvent)

\* generateEventID, random being the string uuid.New() gives when it is
\* called.
generateEventID(kubeEvent, random) ==
  IF Len(BaseID(kubeEvent)) > IdLimit THEN random ELSE BaseID(kubeEvent)

\* The strings uuid.New().String() can give: 36 characters each.
UUIDs == {Text(36, "0"), Text(36, "f")}

\* The events generateEventID is applied to: short names, one of them
\* with a dash, and names at and just under MaxNameLen characters, which
\* put the base ID at and over the limit.
EventIdInputs ==
  [kind : {"id"},
   namespace : {<<"n">>, <<"n", "-", "a">>},
   name : {<<"p">>, <<"a", "-", "p">>, Text(MaxNameLen - 1, "x"), Text(MaxNameLen, "x")},
   reason : {<<"F", "a", "i", "l", "e", "d">>, <<"B", "a", "c", "k", "O", "f", "f">>},
   uid : {Text(36, "u"), Text(36, "v")},
   firstTimestamp : {1700000000, 1700000300}]

\* A direct caller's determineSeverity.
DetermineSeverity ==
  /\ call = "none"
  /\ args.kind = "severity"
  /\ call' = "determineSeverity"
  /\ result' = determineSeverity(args)
  /\ UNCHANGED <<serviceVars, args>>

\* The same cluster event converted twice: two calls of generateEventID.
GenerateEventID ==
  /\ call = "none"
  /\ args.kind = "id"
  /\ call' = "generateEventID"
  /\ \E r1 \in UUIDs, r2 \in UUIDs :
       result' = [first |-> generateEventID(args, r1),
                  second |-> generateEventID(args, r2)]
  /\ UNCHANGED <<serviceVars, args>>

\* The cluster events two of which are converted in one Collect: objects
\* with short names, with and without a dash, in namespaces with and
\* without one, the involved object's UID set or left empty.
EventIdObjects ==
  [namespace : {<<"n">>, <<"n", "-", "a">>},
   name : {<<"p">>, <<"a", "-", "p">>},
   reason : {<<"F", "a", "i", "l", "e", "d">>, <<"B", "a", "c", "k", "O", "f", "f">>},
   uid : {<<>>, Text(36, "u")},
   firstTimestamp : {1700000000, 1700000300}]

\* Two cluster events of one listing converted: a call of generateEventID
\* for each.
GenerateEventIDs ==
  /\ call = "none"
  /\ args.kind = "ids"
  /\ call' = "generateEventIDs"
  /\ \E r1 \in UUIDs, r2 \in UUIDs :
       result' = [first |-> generateEventID(args.first, r1),
                  second |-> generateEventID(args.second, r2)]
  /\ UNCHANGED <<serviceVars, args>>

InitConvert ==
  /\ now = FiveMinutes
  /\ NewCollector
  /\ call = "none"
  /\ \/ args \in SeverityInputs \cup EventIdInputs
     \/ \E a \in EventIdObjects, b \in EventIdObjects :
          args = [kind |-> "ids", first |-> a, second |-> b]
  /\ result = "none"

NextConvert ==
  \/ DetermineSeverity
  \/ GenerateEventID
  \/ GenerateEventIDs

\* The two functions convertKubernetesEvent derives an Event's severity
\* and ID with, each applied to every event of the inputs.
SpecConvert == InitConvert /\ [][NextConvert]_vars

\* ------------------------------------------- sendMetricToKafka, sendEventToKafka

\* What a send can meet: json.Marshal and WriteMessages both succeed,
\* json.Marshal returns an error, or WriteMessages returns one.
SendOutcomes == {"ok", "marshal", "write"}

\* sendMetricToKafka: the error it returns ("nil" for none) and, as a
\* sequence of at most one, the message it hands to c.kafkaWriter: none when
\* json.Marshal fails, for the function returns before it builds one.
sendMetricToKafka(metric, outcome) ==
  IF outcome = "marshal"
  THEN [err |-> "failed to marshal metric", message |-> <<>>]
  ELSE [err |-> IF outcome = "ok" THEN "nil" ELSE "write",
        message |-> <<MetricMessage(metric)>>]

\* sendEventToKafka: the same, with the writer it creates on the logs topic.
sendEventToKafka(event, outcome) ==
  IF outcome = "marshal"
  THEN [err |-> "failed to marshal event", message |-> <<>>]
  ELSE [err |-> IF outcome = "ok" THEN "nil" ELSE "write",
        message |-> <<EventMessage(event)>>]

\* The send of the loop of source s.
Send(s, record, outcome) ==
  IF s = "events" THEN sendEventToKafka(record, outcome)
  ELSE sendMetricToKafka(record, outcome)

\* What the body of the range loop does with one record: the send, and the
\* error logged when the send returned one.
SendAndLog(s, record, outcome) ==
  LET sending == Send(s, record, outcome)
  IN [err |-> sending.err, message |-> sending.message,
      logged |-> sending.err # "nil"]

\* Mutant of SendRecords: an error of a send ends the range loop.
RECURSIVE SendRecordsUntilError(_, _, _)
SendRecordsUntilError(s, records, outcomes) ==
  IF records = <<>> THEN <<>>
  ELSE LET first == SendAndLog(s, Head(records), Head(outcomes))
       IN IF first.err # "nil" THEN <<first>>
          ELSE <<first>> \o SendRecordsUntilError(s, Tail(records), Tail(outcomes))

\* The range loop of a collecting loop over the records its collector
\* returned, outcomes being what each send meets: per record, in order, what
\* SendAndLog did.
RECURSIVE SendRecords(_, _, _)
SendRecords(s, records, outcomes) ==
  IF records = <<>> THEN <<>>
  ELSE <<SendAndLog(s, Head(records), Head(outcomes))>>
       \o SendRecords(s, Tail(records), Tail(outcomes))

\* The records a collector can return to the loop of source s: metrics named
\* as the collector names them, or events of either type, each with the
\* timestamp of stamps.
RecordsOf(s, stamps) ==
  [k \in 1..Len(stamps) |->
     IF s = "events"
     THEN convertKubernetesEvent([uid |-> k, type |-> EventType(k),
                                  lastSeen |-> stamps[k]])
     ELSE [name |-> MetricNames[s][((k - 1) % Len(MetricNames[s])) + 1],
           timestamp |-> stamps[k]]]

\* A loop's range over the records of one cycle.
PublishRecords ==
  /\ call = "none"
  /\ call' = "SendRecords"
  /\ result' = SendRecords(args.source, args.records, args.outcomes)
  /\ UNCHANGED <<serviceVars, args>>

\* A cycle of a collecting loop has records to publish, at any time of the
\* clock, and every send will meet one of its outcomes.
InitPublish ==
  /\ now \in Times
  /\ NewCollector
  /\ call = "none"
  /\ \E s \in Collecting, n \in 0..MaxBatch :
       \E stamps \in [1..n -> Times], outcomes \in [1..n -> SendOutcomes] :
         args = [source |-> s, records |-> RecordsOf(s, stamps),
                 outcomes |-> outcomes]
  /\ result = "none"

NextPublish == PublishRecords

\* The publishing of one cycle's records.
SpecPublish == InitPublish /\ [][NextPublish]_vars

\* ------------------------------------------------------------ main: run

\* Mutant of NewCollectorOf: the error of initKubernetesClients is dropped
\* and a Collector returned without clients.
NewCollectorOfLenient(a) ==
  [collector |-> "Collector", err |-> "nil", wraps |-> "nil"]

\* NewCollector as a function of what initKubernetesClients is given: nil
\* and the wrapped error when the clients cannot be built, else the
\* Collector and no error.
NewCollectorOf(a) ==
  LET clients == initKubernetesClients(a) IN
    IF ~clients.ok
    THEN [collector |-> "nil", err |-> "failed to initialize Kubernetes clients",
          wraps |-> clients.message]
    ELSE [collector |-> "Collector", err |-> "nil", wraps |-> "nil"]

\* The configurations and environments run is started in: in-cluster
\* credentials preferred where discovery fails, with or without a
\* credentials file at the configured path, from which the Kubernetes client
\* can or cannot be created.
RunInputs ==
  [kind : {"clients"}, inCluster : {TRUE}, configPath : {ExplicitPath},
   home : {HomeDir}, discovery : {FALSE}, files : {{}, {<<ExplicitPath>>}},
   buildOk : {TRUE}, kubeOk : BOOLEAN, metricsOk : {TRUE}]

\* run: services.NewCollector(cfg, m), and logrus's Fatal, which exits the
\* process, when it returns an error.
RunNewCollector ==
  /\ call = "none"
  /\ call' = "run"
  /\ result' = [created |-> NewCollectorOf(args),
                exited |-> NewCollectorOf(args).err # "nil"]
  /\ UNCHANGED <<serviceVars, args>>

\* run holds a Collector: NewCollector has returned one and the process goes
\* on.
Created == call = "run" /\ ~result.exited /\ result.created.collector # "nil"

\* run's goroutine calls collector.Start(ctx).
RunStart == Created /\ StartBegin

\* A signal arrives (or Start returned an error) and run calls cancel().
RunCancel == Created /\ Cancel

\* run, after cancel(), calls collector.Stop(shutdownCtx).
RunStop == Created /\ ctxDone /\ StopBegin

InitRun ==
  /\ now = FiveMinutes
  /\ NewCollector
  /\ call = "none"
  /\ args \in RunInputs
  /\ result = "none"

\* The process as run drives it: the Collector is created or the process
\* exits; Start runs in its goroutine, and after a signal run cancels
\* Start's context and calls Stop with a context that has a deadline. The
\* tickers deliver MaxRunTicks ticks and a collection returns at most
\* MaxRunBatch metrics.
NextMain ==
  \/ RunNewCollector
  \/ RunStart
  \/ StartLaunch
  \/ StartReturn
  \/ RunCancel
  \/ RunStop
  \/ StopWaiter
  \/ StopSelect
  \/ StopClose
  \/ StopDeadline
  \/ ticks < MaxRunTicks /\ SystemTick
  \/ \E s \in Sources : LoopExit(s)
  \/ \E s \in Collecting : ticks < MaxRunTicks /\ LoopTick(s)
  \/ \E s \in Collecting : LoopCollectFail(s)
  \/ \E s \in {"nodes", "pods"}, n \in 0..MaxRunBatch : LoopCollectMetrics(s, n)
  \/ LoopCollectEvents
  \/ \E s \in Collecting, ok \in BOOLEAN : LoopPublish(s, ok)
  \/ \E s \in Collecting : LoopFinish(s)
  \/ ClusterReports

SpecMain == InitRun /\ [][NextMain]_vars

\* The steps the loop of source s takes by itself once Start's context is
\* cancelled: the return on <-ctx.Done(), the return of a call in flight
\* with the cancelled context (a collection with an error, a publish with
\* or without one), and the end of the cycle.
LoopStep(s) ==
  \/ LoopExit(s)
  \/ ctxDone /\ LoopCollectFail(s)
  \/ ctxDone /\ \E ok \in BOOLEAN : LoopPublish(s, ok)
  \/ LoopFinish(s)

\* What the scheduling of the process guarantees: a goroutine that can run
\* does run (Start's, Stop's and its waiter's, each loop's); run calls Stop
\* after cancel(), and the deadline of the context it passes expires. A
\* select that finds both <-ctx.Done() and a tick ready may take the tick,
\* of which the tickers deliver finitely many here.
FairMain ==
  /\ WF_vars(RunStart \/ StartLaunch \/ StartReturn)
  /\ WF_vars(RunStop \/ StopSelect \/ StopClose)
  /\ WF_vars(StopWaiter)
  /\ WF_vars(StopDeadline)
  /\ \A s \in Sources : WF_vars(LoopStep(s))

\* The process under run, scheduled fairly.
SpecMainFair == SpecMain /\ FairMain

\* ------------------------------------------------- EventCollector: claims

\* The UIDs of a slice of model Events.
IdsOf(events) == {events[i].id : i \in 1..Len(events)}

\* The greatest of a non-empty set of times.
MaxOf(S) == CHOOSE m \in S : \A x \in S : x <= m

\* The listed UIDs whose last-seen time is strictly after w.
NewerThan(cl, w) == {u \in Uids : cl[u] # NoEvent /\ cl[u] > w}

\* C1: a successful Collect returns exactly the listed events whose
\* last-seen time is strictly after the watermark held when the call began:
\* each once, with that last-seen time as its timestamp, and none whose
\* last-seen time equals the watermark.
C1_CollectReturnsExactlyNewer ==
  [][ECCollectOk =>
      /\ \A i \in 1..Len(ecEvents') : ecEvents'[i].timestamp > lastTimestamp
      /\ IdsOf(ecEvents') = NewerThan(cluster, lastTimestamp)
      /\ Len(ecEvents') = Cardinality(NewerThan(cluster, lastTimestamp))
      /\ \A i \in 1..Len(ecEvents') :
           ecEvents'[i].timestamp = cluster[ecEvents'[i].id]]_vars

\* C1 witness: a Collect has returned an event while another listed event,
\* at or before the watermark, stayed behind.
C1_Witness ==
  /\ lastOp = "Collect" /\ ~ecErr /\ Len(ecEvents) = 1
  /\ \E u \in Uids : cluster[u] # NoEvent /\ u \notin IdsOf(ecEvents)

\* C2: of two consecutive successful Collect calls, the second returns no
\* event at or before the watermark it started from, so an event the first
\* call returned and that is still listed with the same last-seen time is
\* not returned again; after the first call the watermark is the greatest
\* last-seen time that call returned.
C2_NoReEmission ==
  /\ []((lastOp = "Collect" /\ ~ecErr /\ ecEvents # <<>>) =>
          lastTimestamp = MaxOf({ecEvents[i].timestamp : i \in 1..Len(ecEvents)}))
  /\ [][(lastOp = "Collect" /\ ~ecErr /\ ECCollectOk) =>
          /\ \A i \in 1..Len(ecEvents') : ecEvents'[i].timestamp > lastTimestamp
          /\ \A j \in 1..Len(ecEvents) :
               cluster[ecEvents[j].id] = ecEvents[j].timestamp =>
                 ecEvents[j].id \notin IdsOf(ecEvents')]_vars

\* C2 witness: the first call returned an event that is still listed with
\* the same last-seen time, and the watermark stands at that time.
C2_Witness ==
  /\ lastOp = "Collect" /\ ~ecErr /\ ecEvents # <<>>
  /\ \E j \in 1..Len(ecEvents) :
       /\ cluster[ecEvents[j].id] = ecEvents[j].timestamp
       /\ lastTimestamp = ecEvents[j].timestamp

\* C3: no Collect call moves the watermark backward; a successful call
\* leaves it at the greatest of its previous value and the last-seen times
\* of the events it kept; and it never crosses the last-seen time of an
\* event the call filtered out (every listed event between the old and the
\* new watermark was kept).
C3_WatermarkMonotone ==
  [][/\ (ECCollectOk \/ ECCollectFail) => lastTimestamp' >= lastTimestamp
     /\ ECCollectOk =>
          /\ lastTimestamp' =
               MaxOf({lastTimestamp} \cup
                     {ecEvents'[i].timestamp : i \in 1..Len(ecEvents')})
          /\ \A u \in Uids :
               (cluster[u] # NoEvent /\ u \notin IdsOf(ecEvents')) =>
                 ~(lastTimestamp < cluster[u] /\ cluster[u] <= lastTimestamp')]_vars

\* C3 witness: a call kept two events, the later-listed one the older, and
\* the watermark stands at the greater last-seen time.
C3_Witness ==
  /\ lastOp = "Collect" /\ ~ecErr /\ Len(ecEvents) = 2
  /\ ecEvents[2].timestamp < ecEvents[1].timestamp
  /\ lastTimestamp = ecEvents[1].timestamp

\* C4: a Collect whose listing fails returns an error and no events and
\* leaves the watermark as it was; only a successful Collect (or an explicit
\* Reset or SetLastTimestamp) writes the watermark.
C4_FailedListingKeepsWatermark ==
  /\ []((lastOp = "Collect" /\ ecErr) => ecEvents = <<>>)
  /\ [][ECCollectFail => (ecErr' /\ ecEvents' = <<>> /\
                          lastTimestamp' = lastTimestamp)]_vars
  /\ [][lastTimestamp' # lastTimestamp =>
          (~ecErr' \/ lastOp' # "Collect")]_vars

\* C4 witness: a call failed while the cluster listed an event newer than
\* the watermark.
C4_Witness ==
  /\ lastOp = "Collect" /\ ecErr
  /\ NewerThan(cluster, lastTimestamp) # {}

\* ------------------------------------------------------ Collector: claims

\* Every loop Start has launched so far has returned.
LaunchedLoopsFinished == \A s \in Sources : launched[s] > 0 => pc[s] = "exited"

\* C5: Stop closes the writer only once every loop launched by Start has
\* finished or the deadline of Stop's context has expired.
C5_CloseAfterLoopsOrDeadline ==
  [][(~writerClosed /\ writerClosed') =>
       (LaunchedLoopsFinished \/ stopCtxDone)]_vars

\* C6: Stop itself signals the loops to exit: once Stop has returned, every
\* loop that is still running has had its cancellation delivered, whether or
\* not the caller cancelled the context passed to Start.
C6_StopSignalsLoops ==
  stopPc = "returned" =>
    \A s \in Sources : pc[s] \in {"idle", "exited"} \/ ctxDone

\* C7: the lifecycle only moves forward, Idle -> Running -> Draining ->
\* Stopped: once Stop has returned, the Collector is not running again and
\* no loop is launched against the closed writer.
C7_LifecycleForwardOnly ==
  [][stopPc = "returned" => (~running' /\ launched' = launched)]_vars

\* C8: Start launches exactly one loop for each of the four sources and then
\* blocks; it returns only after its context has been cancelled.
C8_StartLaunchesFourAndBlocks ==
  /\ \A s \in Sources : launched[s] <= 1 /\ (launched[s] = 1 <=> pc[s] # "idle")
  /\ startPc \in {"blocked", "returned"} => \A s \in Sources : launched[s] = 1
  /\ startPc \in {"blocked", "returned"} => wg + Cardinality({s \in Sources : pc[s] = "exited"}) = Cardinality(Sources)
  /\ startPc = "returned" => ctxDone

\* C8 witness: Start has returned, after the cancellation, with its four
\* loops launched.
C8_Witness ==
  /\ startPc = "returned" /\ ctxDone
  /\ \A s \in Sources : launched[s] = 1

\* C9: a failed Collect stops neither its loop, nor another loop, nor Start:
\* the step that takes the error records it under the loop's key, publishes
\* nothing, and leaves the loop at its select again; a loop exits, and Start
\* returns, only on the cancellation.
C9_FailedCollectKeepsLoop ==
  /\ [](\A s \in Sources : pc[s] = "exited" => ctxDone)
  /\ [](startPc = "returned" => ctxDone)
  /\ [][\A s \in Collecting :
          (pc[s] = "collect" /\ pc'[s] \notin {"collect", "publish"}) =>
             /\ pc'[s] = "select"
             /\ sent'[s] = <<>> /\ batch'[s] = <<>>
             /\ recorder'[s].errors = recorder[s].errors + 1
             /\ recorder'[s].collected = recorder[s].collected
             /\ \A o \in Sources \ {s} : pc'[o] = pc[o]
             /\ startPc' = startPc /\ wg' = wg]_vars

\* C9 witness: a loop's Collect has failed and the loop waits at its select,
\* not cancelled, while another loop is in the middle of a cycle.
C9_Witness ==
  /\ ~ctxDone
  /\ \E s \in Collecting :
       /\ recorder[s].errors = 1 /\ pc[s] = "select"
       /\ \E o \in Collecting \ {s} : pc[o] = "publish"

\* C10: a failed publish aborts neither the cycle nor the loop: the
\* publishes attempted so far are those of the first records of the batch,
\* in the order returned, and the cycle ends only when one has been
\* attempted for every record, back at the select.
C10_EveryRecordAttempted ==
  /\ [](\A s \in Collecting :
          /\ Len(sent[s]) <= Len(batch[s])
          /\ \A k \in 1..Len(sent[s]) : sent[s][k].msg = MessageOf(s, batch[s][k]))
  /\ [][\A s \in Collecting :
          (pc[s] = "publish" /\ pc'[s] # "publish") =>
             (Len(sent[s]) = Len(batch[s]) /\ pc'[s] = "select")]_vars

\* C10 witness: both records of a batch have been attempted, the first
\* publish failed and the second was acknowledged.
C10_Witness ==
  \E s \in Collecting :
    /\ pc[s] = "publish" /\ Len(batch[s]) = 2 /\ Len(sent[s]) = 2
    /\ ~sent[s][1].ok /\ sent[s][2].ok

\* C11: each failed publish increments the recorder's error counter of its
\* source: the step in which a send returns an error adds exactly one to the
\* errors recorded under the loop's key.
C11_PublishFailureCounted ==
  [][\A s \in Collecting :
       (Len(sent'[s]) = Len(sent[s]) + 1 /\ ~sent'[s][Len(sent'[s])].ok) =>
          recorder'[s].errors = recorder[s].errors + 1]_vars

\* C12: every loop makes exactly one RecordMetricCollection per completed
\* cycle, under its own key, and none at any other moment: after a failed
\* Collect it carries count 0 and the error; after a successful one it
\* carries no error and the number of records Collect returned, whatever
\* number of them was published; the system loop records its three metrics.
C12_OneObservationPerCycle ==
  [][/\ \A s \in Collecting :
          /\ (pc[s] = "collect" /\ pc'[s] = "select") =>
                recorder'[s] = [collected |-> recorder[s].collected,
                                observations |-> recorder[s].observations + 1,
                                errors |-> recorder[s].errors + 1]
          /\ (pc[s] = "publish" /\ pc'[s] = "select") =>
                recorder'[s] = [collected |-> recorder[s].collected + Len(batch[s]),
                                observations |-> recorder[s].observations + 1,
                                errors |-> recorder[s].errors]
          /\ ~(pc[s] \in {"collect", "publish"} /\ pc'[s] = "select") =>
                recorder'[s] = recorder[s]
     /\ recorder'["system"] # recorder["system"] =>
          /\ ticks' = ticks + 1
          /\ recorder'["system"] =
               [collected |-> recorder["system"].collected + SystemMetricCount,
                observations |-> recorder["system"].observations + 1,
                errors |-> recorder["system"].errors]]_vars

\* C12 witness: under one key a cycle whose Collect failed and a cycle whose
\* Collect returned MaxBatch records have both been recorded.
C12_Witness ==
  \E s \in Collecting :
    recorder[s] = [collected |-> MaxBatch, observations |-> 2, errors |-> 1]

\* ---------------------------------- NodeCollector and PodCollector: claims

\* The names of the metrics that carry usage data of the metrics API.
UsageNames ==
  {"node_cpu_usage_cores", "node_memory_usage_bytes", "pod_cpu_usage_cores",
   "pod_memory_usage_bytes", "container_cpu_usage_cores",
   "container_memory_usage_bytes"}

\* A NodeCollector.Collect or PodCollector.Collect has returned.
CollectCalled == call \in {"NodeCollector.Collect", "PodCollector.Collect"}

\* The labels that name the node or pod a metric is about.
ObjectOf(m) == IF "object" \in DOMAIN m.labels THEN m.labels.object ELSE m.labels

\* The labels that name a listed node or pod.
LabelsOf(kind, o) ==
  IF kind = "nodes" THEN [node |-> o.name]
  ELSE [pod |-> o.name, namespace |-> o.namespace, phase |-> o.phase]

\* The number of metrics of one of the names about the object of the labels.
CountOf(metrics, names, labels) ==
  Cardinality({i \in 1..Len(metrics) :
                 metrics[i].name \in names /\ ObjectOf(metrics[i]) = labels})

\* 1 for a quantity that is not zero, else 0.
One(q) == IF q # 0 THEN 1 ELSE 0

\* The collection of the inputs a, by the collector of their kind.
CollectOf(a, timestamp) ==
  IF a.kind = "nodes" THEN NodeCollect(a, timestamp) ELSE PodCollect(a, timestamp)

\* A sequence of metrics without those that carry usage data.
WithoutUsage(metrics) == SelectSeq(metrics, LAMBDA m : m.name \notin UsageNames)

\* The usage entries of a listing that are about the object of a metric.
EntriesFor(m, kind, items) ==
  {j \in 1..Len(items) :
     IF kind = "nodes" THEN items[j].name = ObjectOf(m).node
     ELSE /\ items[j].name = ObjectOf(m).pod
          /\ items[j].namespace = ObjectOf(m).namespace}

\* The usage, in thousandths, that the entry e reports for the metric m.
EntryValue(m, e) ==
  LET ofContainer ==
        {k \in 1..Len(e.containers) : e.containers[k].name = m.labels.container}
  IN CASE m.name = "node_cpu_usage_cores" -> e.cpu
       [] m.name = "node_memory_usage_bytes" -> Float64(e.memory)
       [] m.name = "pod_cpu_usage_cores" -> TotalUsage(e.containers).cpu
       [] m.name = "pod_memory_usage_bytes" -> Float64(TotalUsage(e.containers).memory)
       [] m.name = "container_cpu_usage_cores" ->
            IF ofContainer = {} THEN 0
            ELSE e.containers[CHOOSE k \in ofContainer : TRUE].cpu
       [] m.name = "container_memory_usage_bytes" ->
            IF ofContainer = {} THEN 0
            ELSE Float64(e.containers[CHOOSE k \in ofContainer : TRUE].memory)

\* C13: when the object listing succeeds and the usage listing fails,
\* Collect still succeeds: it returns no usage metric, and for every listed
\* object every metric that does not depend on usage data (info, age, one
\* per condition and per taint, capacity and allocatable; phase, ready, the
\* container metrics), the same ones as under any usage listing that
\* succeeds.
C13_UsageFailureDegrades ==
  (CollectCalled /\ ~args.listErr /\ args.usage.err) =>
    /\ ~result.err
    /\ \A i \in 1..Len(result.metrics) : result.metrics[i].name \notin UsageNames
    /\ \A i \in 1..Len(args.objects) :
         LET o == args.objects[i]
             n(names) == CountOf(result.metrics, names, LabelsOf(args.kind, o))
         IN IF args.kind = "nodes"
            THEN /\ n({"node_info"}) = 1
                 /\ n({"node_age_seconds"}) = 1
                 /\ n({"node_condition"}) = Len(o.conditions)
                 /\ n({"node_taint"}) = Len(o.taints)
                 /\ n({"node_cpu_capacity_cores"}) = One(o.capacity.cpu)
                 /\ n({"node_memory_capacity_bytes"}) = One(o.capacity.memory)
                 /\ n({"node_cpu_allocatable_cores"}) = One(o.allocatable.cpu)
                 /\ n({"node_memory_allocatable_bytes"}) = One(o.allocatable.memory)
            ELSE /\ n({"pod_phase"}) = 1
                 /\ n({"pod_ready"}) = 1
                 /\ n({"pod_age_seconds"}) = 1
                 /\ n({"container_ready"}) = Len(o.statuses)
                 /\ n({"container_restart_count"}) = Len(o.statuses)
                 /\ n({"container_state"}) = Len(o.statuses)
                 /\ n({"container_cpu_request_cores", "container_memory_request_bytes",
                       "container_cpu_limit_cores", "container_memory_limit_bytes"})
                    = Cardinality(
                        {q \in (1..Len(o.containers)) \X {"cpu", "memory"} :
                           o.containers[q[1]].requests[q[2]] # 0})
                      + Cardinality(
                          {q \in (1..Len(o.containers)) \X {"cpu", "memory"} :
                             o.containers[q[1]].limits[q[2]] # 0})
    /\ \A u \in UsageOutcomes(IF args.kind = "nodes" THEN NodeUsageListings
                               ELSE PodUsageListings) :
         WithoutUsage(CollectOf([args EXCEPT !.usage = u], now).metrics)
           = result.metrics

\* C13 witness: the NodeCollector has returned the metrics of every node of
\* the cluster, one of them with a condition and a taint, after the usage
\* listing failed.
C13_Witness ==
  /\ call = "NodeCollector.Collect"
  /\ ~args.listErr /\ args.usage.err
  /\ Len(args.objects) = MaxObjects
  /\ \E i \in 1..Len(args.objects) :
       /\ args.objects[i].conditions # <<>>
       /\ args.objects[i].taints # <<>>
       /\ args.objects[i].capacity.cpu # 0
  /\ ~result.err /\ result.metrics # <<>>

\* C14: a usage metric is returned for a node or pod only from an entry of
\* the usage listing about that object, with the usage the entry reports,
\* which is not zero; for an object without an entry (or when the listing
\* failed) none is returned, with no value put in its place.
C14_UsageOnlyFromListing ==
  (CollectCalled /\ ~result.err) =>
    \A i \in 1..Len(result.metrics) :
      LET m == result.metrics[i]
          entries == EntriesFor(m, args.kind, args.usage.list.items)
      IN m.name \in UsageNames =>
           /\ ~args.usage.err /\ ~args.usage.list.isNil
           /\ entries # {}
           /\ m.value # 0
           /\ \E j \in entries : m.value = EntryValue(m, args.usage.list.items[j])

\* C14 witness: of two listed pods of one name, the usage listing holds an
\* entry for the one only, and only that one got usage metrics.
C14_Witness ==
  /\ call = "PodCollector.Collect" /\ ~result.err
  /\ Len(args.objects) >= 2
  /\ args.objects[1].name = args.objects[2].name
  /\ Len(args.usage.list.items) = 1
  /\ args.usage.list.items[1].namespace = args.objects[2].namespace
  /\ CountOf(result.metrics, UsageNames,
             LabelsOf("pods", args.objects[2])) >= 2
  /\ CountOf(result.metrics, UsageNames,
             LabelsOf("pods", args.objects[1])) = 0

\* ------------------------------------------ initKubernetesClients: claims

\* initKubernetesClients has returned.
ClientsCalled == call = "initKubernetesClients"

\* The credentials file of the configuration exists.
FileExists == ConfigPath(args) \in args.files

\* The path the fallback is to consult: the configured one, else the
\* per-user default.
ExpectedPath ==
  IF args.configPath # "" THEN <<args.configPath>>
  ELSE <<IF args.home = "" THEN "/root" ELSE args.home, "/.kube/config">>

C16_SourceOrderFixed ==
  ClientsCalled =>
    LET chosen == result.consulted[Len(result.consulted)][1] IN
    /\ result.consulted # <<>>
    /\ chosen = (IF args.inCluster /\ args.discovery THEN "inCluster" ELSE "file")
    /\ (args.inCluster /\ args.discovery) => result.consulted = <<<<"inCluster">>>>
    /\ (\E i \in 1..Len(result.consulted) : result.consulted[i][1] = "file")
         <=> ~(args.inCluster /\ args.discovery)
    /\ (\E i \in 1..Len(result.consulted) : result.consulted[i][1] = "inCluster")
         <=> args.inCluster
    /\ result.ok =>
         result.source = (IF args.inCluster /\ args.discovery THEN "inCluster"
                          ELSE "file")
    /\ (result.ok /\ result.source = "file") => FileExists

\* C16 witness: in-cluster credentials are used while a usable credentials
\* file exists too.
C16_Witness ==
  /\ ClientsCalled /\ args.inCluster /\ args.discovery
  /\ FileExists /\ args.buildOk
  /\ result.ok /\ result.source = "inCluster"

\* C17: when in-cluster credentials were requested and neither discovery nor
\* the credentials file gave a configuration (the file missing, or present
\* and unusable), the construction fails with the in-cluster discovery
\* error.
C17_FailsWithInClusterError ==
  (ClientsCalled /\ args.inCluster /\ ~args.discovery
     /\ ~(FileExists /\ args.buildOk)) =>
    (~result.ok /\ result.wraps = "inClusterErr")

\* C18: when in-cluster credentials were not requested and the credentials
\* file gives no configuration, the construction fails with the "no valid
\* configuration" error.
C18_FailsWithNoValidConfiguration ==
  (ClientsCalled /\ ~args.inCluster /\ ~(FileExists /\ args.buildOk)) =>
    (~result.ok /\
     result.message = "failed to create Kubernetes config: no valid configuration found")

\* -------------------------- determineSeverity and generateEventID: claims

\* C19: the severity follows the table for every type and reason: for a
\* Warning event, Error when the reason is of the fatal-resource set,
\* Critical when it is of the systemic set, Warning otherwise; Info for
\* every Normal event, whatever its reason; and the two sets share no
\* reason.
C19_SeverityTable ==
  /\ ErrorReasons \cap CriticalReasons = {}
  /\ call = "determineSeverity" =>
       /\ (args.type = "Warning" /\ args.reason \in ErrorReasons) => result = "error"
       /\ (args.type = "Warning" /\ args.reason \in CriticalReasons) =>
            result = "critical"
       /\ (args.type = "Warning" /\ args.reason \notin ErrorReasons \cup CriticalReasons)
            => result = "warning"
       /\ args.type = "Normal" => result = "info"

\* C19 witness: a Normal event whose reason is of the fatal-resource set
\* has been classified Info.
C19_Witness ==
  /\ call = "determineSeverity"
  /\ args.type = "Normal" /\ args.reason \in ErrorReasons
  /\ result = "info"

\* C20: the ID is the concatenation of namespace, involved-object name,
\* reason, involved-object UID and first-seen Unix time whenever that string
\* has at most 100 characters, and then two conversions of the event give
\* the same ID; only a longer string is replaced, by a random identifier.
C20_EventIdDerivedOrRandom ==
  call = "generateEventID" =>
    LET expected == args.namespace \o <<"-">> \o args.name \o <<"-">>
                    \o args.reason \o <<"-">> \o args.uid \o <<"-">>
                    \o Decimal(args.firstTimestamp)
    IN IF Len(expected) <= 100
       THEN result.first = expected /\ result.second = expected
       ELSE result.first \in UUIDs /\ result.second \in UUIDs

\* C20 witness: an event whose concatenation has more than 100 characters
\* got two different IDs from two conversions.
C20_Witness ==
  /\ call = "generateEventID"
  /\ Len(BaseID(args)) > IdLimit
  /\ result.first # result.second

\* ------------------------------------- per-object metric values: claims

\* The positions, in a sequence of metrics, of the metrics of the name about
\* the object of the labels.
MetricsOf(metrics, name, labels) ==
  {j \in 1..Len(metrics) : metrics[j].name = name /\ ObjectOf(metrics[j]) = labels}

\* C21: for every listed node and every condition of its status exactly
\* one node_condition metric is returned, labelled with the condition, its
\* status and its reason; its value is 1 when the status is True and 0 for
\* any other status (False, Unknown, empty), so that of Ready is 0 whenever
\* Ready is not True.
C21_ConditionMetricPerCondition ==
  (call = "NodeCollector.Collect" /\ ~result.err) =>
    \A i \in 1..Len(args.objects) :
      LET node == args.objects[i]
          emitted == MetricsOf(result.metrics, "node_condition", [node |-> node.name])
      IN /\ Cardinality(emitted) = Len(node.conditions)
         /\ \A c \in 1..Len(node.conditions) :
              LET condition == node.conditions[c]
                  mine == {j \in emitted :
                             result.metrics[j].labels.condition = condition.type}
              IN /\ Cardinality(mine) = 1
                 /\ \A j \in mine :
                      /\ result.metrics[j].labels.status = condition.status
                      /\ result.metrics[j].labels.reason = condition.reason
                      /\ result.metrics[j].value
                           = (IF condition.status = "True" THEN 1000 ELSE 0)
                      /\ (condition.type = "Ready" /\ condition.status # "True")
                           => result.metrics[j].value = 0

\* C21 witness: the NodeCollector has returned the metrics of a node whose
\* Ready is True and of a node whose conditions are False, Unknown and
\* empty.
C21_Witness ==
  /\ call = "NodeCollector.Collect" /\ ~result.err
  /\ \E i, k \in 1..Len(args.objects) :
       /\ \E c \in 1..Len(args.objects[i].conditions) :
            /\ args.objects[i].conditions[c].type = "Ready"
            /\ args.objects[i].conditions[c].status = "True"
       /\ {args.objects[k].conditions[c].status :
             c \in 1..Len(args.objects[k].conditions)} = {"False", "Unknown", ""}
       /\ \E j \in 1..Len(result.metrics) :
            /\ result.metrics[j].name = "node_condition"
            /\ result.metrics[j].labels.object = [node |-> args.objects[i].name]
            /\ result.metrics[j].value = 1000
       /\ \E j \in 1..Len(result.metrics) :
            /\ result.metrics[j].name = "node_condition"
            /\ result.metrics[j].labels.object = [node |-> args.objects[k].name]
            /\ result.metrics[j].labels.condition = "Ready"
            /\ result.metrics[j].value = 0

\* The fixed table of the phase metric: the ordinal of every phase the API
\* defines.
PhaseTable ==
  {<<"Running", 1>>, <<"Pending", 2>>, <<"Succeeded", 3>>, <<"Failed", 4>>,
   <<"Unknown", 5>>}

\* C22: for every listed pod exactly one pod_phase metric is returned; its
\* value is one of 0..5: the ordinal of the pod's phase in the table
\* Running=1, Pending=2, Succeeded=3, Failed=4, Unknown=5, and 0 for a
\* phase that is not set or not in the table.
C22_PhaseOrdinal ==
  (call = "PodCollector.Collect" /\ ~result.err) =>
    \A i \in 1..Len(args.objects) :
      LET pod == args.objects[i]
          emitted == MetricsOf(result.metrics, "pod_phase", LabelsOf("pods", pod))
      IN /\ Cardinality(emitted) = 1
         /\ \A j \in emitted :
              /\ result.metrics[j].value \in {1000 * v : v \in 0..5}
              /\ \A row \in PhaseTable :
                   pod.phase = row[1] => result.metrics[j].value = 1000 * row[2]
              /\ pod.phase \notin {row[1] : row \in PhaseTable}
                   => result.metrics[j].value = 0

\* C22 witness: the PodCollector has returned the phase metrics of a pod in
\* a phase of the table and of a pod whose phase is not in it.
C22_Witness ==
  /\ call = "PodCollector.Collect" /\ ~result.err
  /\ \E i, k \in 1..Len(args.objects) :
       /\ args.objects[i].phase = "Succeeded"
       /\ args.objects[k].phase = "Evicted"
       /\ \E j \in MetricsOf(result.metrics, "pod_phase",
                             LabelsOf("pods", args.objects[i])) :
            result.metrics[j].value = 3000
       /\ \E j \in MetricsOf(result.metrics, "pod_phase",
                             LabelsOf("pods", args.objects[k])) :
            result.metrics[j].value = 0

\* C23: for every container status of every listed pod exactly one
\* container_restart_count metric is returned, labelled with the
\* container's name, and its value is that container's restart count.
C23_RestartCountPerContainer ==
  (call = "PodCollector.Collect" /\ ~result.err) =>
    \A i \in 1..Len(args.objects) :
      LET pod == args.objects[i]
          emitted == MetricsOf(result.metrics, "container_restart_count",
                               LabelsOf("pods", pod))
      IN /\ Cardinality(emitted) = Len(pod.statuses)
         /\ \A c \in 1..Len(pod.statuses) :
              LET mine == {j \in emitted :
                             result.metrics[j].labels.container = pod.statuses[c].name}
              IN /\ Cardinality(mine) = 1
                 /\ \A j \in mine :
                      result.metrics[j].value = 1000 * pod.statuses[c].restartCount

\* C23 witness: the PodCollector has returned, for a pod of two containers
\* restarted 3 times and once, a restart count of 3 for the one and of 1 for
\* the other.
C23_Witness ==
  /\ call = "PodCollector.Collect" /\ ~result.err
  /\ \E i \in 1..Len(args.objects) :
       LET pod == args.objects[i]
           emitted == MetricsOf(result.metrics, "container_restart_count",
                                LabelsOf("pods", pod))
       IN /\ Len(pod.statuses) = 2
          /\ pod.statuses[1].restartCount = 3
          /\ pod.statuses[2].restartCount = 1
          /\ {<<result.metrics[j].labels.container, result.metrics[j].value>> :
                j \in emitted}
               = {<<pod.statuses[1].name, 3000>>, <<pod.statuses[2].name, 1000>>}

\* The metric names of the capacity and of the allocatable of a node, per
\* resource dimension.
CapacityNames ==
  {"node_cpu_capacity_cores", "node_memory_capacity_bytes",
   "node_storage_capacity_bytes", "node_pod_capacity"}

\* The names of the node metrics that are about neither capacity nor
\* allocatable.
OtherNodeNames ==
  {"node_condition", "node_info", "node_age_seconds", "node_taint",
   "node_cpu_usage_cores", "node_memory_usage_bytes"}

\* C24: for every listed node the NodeCollector returns four capacity
\* metrics and four allocatable metrics, one per resource dimension (CPU
\* cores, memory bytes, storage bytes, pod count).
C24_FourCapacityFourAllocatable ==
  (call = "NodeCollector.Collect" /\ ~result.err) =>
    \A i \in 1..Len(args.objects) :
      LET labels == [node |-> args.objects[i].name]
          about == {j \in 1..Len(result.metrics) :
                      ObjectOf(result.metrics[j]) = labels}
          capacity == {j \in about : result.metrics[j].name \in CapacityNames}
          allocatable == {j \in about :
                            result.metrics[j].name
                              \notin CapacityNames \cup OtherNodeNames}
      IN /\ Cardinality(capacity) = 4
         /\ Cardinality({result.metrics[j].name : j \in capacity}) = 4
         /\ Cardinality(allocatable) = 4
         /\ Cardinality({result.metrics[j].name : j \in allocatable}) = 4

\* ----------------------------------------------------- the loops: claims

\* C26: the watermark is the events loop's alone: there is at most one
\* events loop, and a step that moves the watermark is the return of that
\* loop's Collect, whatever Start, Stop and the other loops are doing; so no
\* two threads of control are ever at the watermark together.
C26_WatermarkOwnedByEventsLoop ==
  [][/\ launched["events"] <= 1
     /\ lastTimestamp' # lastTimestamp =>
          /\ pc["events"] = "collect"
          /\ pc'["events"] = "publish"
          /\ \A s \in Sources \ {"events"} : pc'[s] = pc[s]
          /\ startPc' = startPc /\ stopPc' = stopPc]_vars

\* C26 witness: the events loop has moved the watermark while Stop was
\* waiting and another loop was running.
C26_Witness ==
  /\ lastTimestamp # now - FiveMinutes
  /\ stopPc = "select"
  /\ \E s \in Sources \ {"events"} : pc[s] = "select"
  /\ pc["events"] \in {"publish", "select"}

\* What the loop of source s can do next by itself: take a tick, have its
\* call in flight return, send the next record, end its cycle.
CanProceed(s) ==
  CASE s = "system" -> ENABLED SystemTick
    [] pc[s] = "select" -> ENABLED LoopTick(s)
    [] pc[s] = "collect" ->
         /\ ENABLED LoopCollectFail(s)
         /\ IF s = "events" THEN ENABLED LoopCollectEvents
            ELSE \A n \in 0..MaxBatch : ENABLED LoopCollectMetrics(s, n)
    [] pc[s] = "publish" ->
         IF Len(sent[s]) < Len(batch[s])
         THEN ENABLED LoopPublish(s, FALSE) /\ (CanWrite(s) => ENABLED LoopPublish(s, TRUE))
         ELSE ENABLED LoopFinish(s)
    [] OTHER -> TRUE

C25_RoutedAndKeyedByRecord ==
  call = "SendRecords" =>
    \A k \in 1..Len(result) :
      \A j \in 1..Len(result[k].message) :
        LET record == args.records[k]
            message == result[k].message[j]
        IN /\ message.time = record.timestamp
           /\ args.source \in {"nodes", "pods"} =>
                /\ message.topic = "metrics"
                /\ message.key = record.name
                /\ message.topic # "logs"
           /\ args.source = "events" =>
                /\ message.topic = "logs"
                /\ message.key = record.type
                /\ message.topic # "metrics"

\* C25 witness: a record stamped with another time than that of the clock
\* has been published, with its own timestamp on the message.
C25_Witness ==
  /\ call = "SendRecords"
  /\ \E k \in 1..Len(result) :
       /\ result[k].err = "nil"
       /\ args.records[k].timestamp # now
       /\ result[k].message # <<>>
       /\ result[k].message[1].time = args.records[k].timestamp

\* C30: when a record cannot be serialized, only that record is dropped: no
\* message is handed to the broker for it, its send returns the error to
\* the loop, which logs it, and the loop goes on with the other records of
\* the cycle: each of them is sent, and published when its own send meets
\* no error.
C30_UnserializableRecordDropped ==
  call = "SendRecords" =>
    /\ Len(result) = Len(args.records)
    /\ \A k \in 1..Len(args.records) :
         args.outcomes[k] = "marshal" =>
           /\ result[k].message = <<>>
           /\ result[k].err \in {"failed to marshal metric", "failed to marshal event"}
           /\ result[k].logged
           /\ \A j \in 1..Len(args.records) :
                args.outcomes[j] = "ok" =>
                  /\ result[j].err = "nil"
                  /\ ~result[j].logged
                  /\ result[j].message = <<MessageOf(args.source, args.records[j])>>

\* C30 witness: the first record of a cycle could not be serialized and the
\* record after it has been published.
C30_Witness ==
  /\ call = "SendRecords"
  /\ Len(args.records) >= 2
  /\ args.outcomes[1] = "marshal"
  /\ args.outcomes[2] = "ok"
  /\ Len(result) >= 2
  /\ result[1].message = <<>> /\ result[1].logged
  /\ result[2].message # <<>> /\ result[2].err = "nil"

\* ------------------------------------------------------- startup: claims

\* C29: when initKubernetesClients fails on every path it tries, NewCollector
\* returns nil with an error and the process exits at startup: Start is
\* never called, no loop is launched, nothing is collected, published or
\* recorded. No other error ends the process: it has exited only in that
\* case, and never once a collection or a publish has failed.
C29_ConnectionErrorIsFatal ==
  call = "run" =>
    /\ ~initKubernetesClients(args).ok =>
         /\ result.created.collector = "nil"
         /\ result.created.err = "failed to initialize Kubernetes clients"
         /\ result.exited
         /\ startPc = "idle" /\ stopPc = "idle" /\ ~running /\ wg = 0
         /\ ~writerClosed
         /\ \A s \in Sources :
              /\ launched[s] = 0
              /\ pc[s] = "idle"
              /\ batch[s] = <<>>
              /\ sent[s] = <<>>
              /\ recorder[s].observations = 0
    /\ result.exited => ~initKubernetesClients(args).ok
    /\ (\E s \in Sources :
          \/ recorder[s].errors > 0
          \/ \E k \in 1..Len(sent[s]) : ~sent[s][k].ok)
         => ~result.exited

\* C29 witness: in-cluster discovery failed, no credentials file exists, and
\* the process has exited.
C29_Witness ==
  /\ call = "run"
  /\ args.inCluster /\ ~args.discovery /\ args.files = {}
  /\ result.created.collector = "nil"
  /\ result.exited

\* ------------------------------------------------------ shutdown: claims

\* C28: once Start's context is cancelled, eventually every loop Start
\* launches has exited, a call in flight returning once its context is
\* cancelled, and the Stop that run calls has returned, having taken the
\* branch of the finished loops or that of its expired deadline, with the
\* writer closed.
C28_LoopsExitAndStopReturns ==
  ctxDone ~> (/\ \A s \in Sources : launched[s] > 0 /\ pc[s] = "exited"
              /\ stopPc = "returned"
              /\ stopBranch \in {"stopped", "timeout"}
              /\ writerClosed)

\* C28 witness: Start's context was cancelled while a loop was in a cycle;
\* every loop has exited and Stop has returned after its deadline expired,
\* the writer closed.
C28_Witness ==
  /\ ctxDone
  /\ \A s \in Sources : launched[s] > 0 /\ pc[s] = "exited"
  /\ \E s \in Collecting : recorder[s].observations > 0
  /\ stopPc = "returned" /\ stopBranch = "timeout" /\ writerClosed

\* ------------------------------------------- shutdown and the loops: claims

\* C31: no record is published once Stop has closed the writer: a send a
\* loop makes while the writer is closed is not acknowledged, whichever
\* branch of its select Stop took.
C31_NoPublishAfterClose ==
  [][\A s \in Collecting :
       (writerClosed /\ Len(sent'[s]) = Len(sent[s]) + 1) =>
          ~sent'[s][Len(sent'[s])].ok]_vars

\* C32: once Start's context is cancelled no loop begins a cycle: no
\* collecting loop leaves its select for a Collect, and the system loop
\* records no further cycle.
C32_NoCycleAfterCancel ==
  [][ctxDone =>
       /\ \A s \in Collecting : ~(pc[s] = "select" /\ pc'[s] = "collect")
       /\ recorder'["system"] = recorder["system"]]_vars

\* C33: nothing is retried inside a cycle: a loop calls its collector only
\* on taking a tick, once, and the call's outcome stands until the next
\* tick (after an error the loop is back at its select with nothing to
\* publish); the publishes of a cycle are one attempt per record, in order,
\* and an attempt made is never replaced, whether it failed or not.
C33_NoRetryInsideCycle ==
  [][\A s \in Collecting :
       /\ (pc[s] # "collect" /\ pc'[s] = "collect") =>
            (pc[s] = "select" /\ ticks' = ticks + 1)
       /\ (pc[s] = "collect" /\ pc'[s] # "collect") =>
            \/ pc'[s] = "publish" /\ recorder'[s] = recorder[s]
            \/ /\ pc'[s] = "select" /\ batch'[s] = <<>> /\ sent'[s] = <<>>
               /\ recorder'[s].observations = recorder[s].observations + 1
       /\ batch'[s] # batch[s] =>
            \/ pc[s] = "collect" /\ pc'[s] = "publish"
            \/ pc[s] = "publish" /\ pc'[s] = "select"
       /\ sent'[s] # sent[s] =>
            \/ pc[s] = "publish" /\ pc'[s] = "select" /\ sent'[s] = <<>>
            \/ /\ pc'[s] = "publish"
               /\ Len(sent'[s]) = Len(sent[s]) + 1
               /\ Len(sent'[s]) <= Len(batch[s])
               /\ SubSeq(sent'[s], 1, Len(sent[s])) = sent[s]
               /\ sent'[s][Len(sent'[s])].msg = MessageOf(s, batch[s][Len(sent'[s])])]_vars

\* C33 witness: a loop whose Collect failed at one tick is, at its next
\* tick, through a batch of two records, the first send of which failed.
C33_Witness ==
  \E s \in Collecting :
    /\ recorder[s].errors = 1 /\ recorder[s].observations = 1
    /\ pc[s] = "publish" /\ Len(batch[s]) = 2 /\ Len(sent[s]) = 2
    /\ ~sent[s][1].ok /\ sent[s][2].ok

\* ------------------------------------------------------- event IDs: claims

\* C34: the ID is unique: two cluster events that differ in namespace,
\* involved-object name, reason, involved-object UID or first-seen time, and
\* whose composite keys have at most 100 characters, get different IDs.
C34_DistinctEventsDistinctIds ==
  call = "generateEventIDs" =>
    ((/\ \/ args.first.namespace # args.second.namespace
         \/ args.first.name # args.second.name
         \/ args.first.reason # args.second.reason
         \/ args.first.uid # args.second.uid
         \/ args.first.firstTimestamp # args.second.firstTimestamp
      /\ Len(BaseID(args.first)) <= 100
      /\ Len(BaseID(args.second)) <= 100)
     => result.first # result.second)

\* ------------------------------------------- watermark and publish: claims

\* C35: the watermark has moved over every event Collect returned before
\* the first of them is published, and no publish, failed or not, moves it:
\* it never goes back, and a later Collect of the loop returns only events
\* last seen strictly after it. An event whose publish failed is therefore
\* not returned again while its last-seen time stays as it was.
C35_WatermarkIgnoresPublish ==
  /\ [](\A k \in 1..Len(batch["events"]) :
          batch["events"][k].timestamp <= lastTimestamp)
  /\ [][/\ lastTimestamp' >= lastTimestamp
        /\ sent'["events"] # sent["events"] => lastTimestamp' = lastTimestamp
        /\ (pc["events"] = "collect" /\ pc'["events"] = "publish") =>
             /\ \A k \in 1..Len(batch'["events"]) :
                  batch'["events"][k].timestamp > lastTimestamp
             /\ \A u \in Uids :
                  (cluster[u] # NoEvent /\ cluster[u] <= lastTimestamp) =>
                     u \notin IdsOf(batch'["events"])]_vars

\* C35 witness: the publish of an event has failed; the event is still
\* listed with the last-seen time it had, the watermark stands at that time
\* and a Collect made now returns nothing.
C35_Witness ==
  /\ pc["events"] = "publish"
  /\ \E k \in 1..Len(sent["events"]) :
       /\ ~sent["events"][k].ok
       /\ cluster[batch["events"][k].id] = batch["events"][k].timestamp
       /\ lastTimestamp = batch["events"][k].timestamp
  /\ Collect(ListEvents(cluster), lastTimestamp).events = <<>>

\* C36: an event listed with a last-seen time at or before the watermark
\* is not returned, whether or not any call has returned it before: a
\* successful Collect returns no listed event whose last-seen time is not
\* strictly after the watermark the call starts from.
C36_LateEventNeverReturned ==
  [][ECCollectOk =>
       \A u \in Uids :
         (cluster[u] # NoEvent /\ cluster[u] <= lastTimestamp) =>
            /\ u \notin IdsOf(ecEvents')
            /\ lastTimestamp' >= cluster[u]]_vars

\* C36 witness: a call has returned an event while another event stayed
\* behind whose last-seen time is the earliest time there is, at or before
\* every value the watermark has had: no call has ever returned it.
C36_Witness ==
  /\ lastOp = "Collect" /\ ~ecErr /\ ecEvents # <<>>
  /\ \E u \in Uids :
       /\ cluster[u] = 0
       /\ u \notin IdsOf(ecEvents)

\* C37: SetLastTimestamp(t) leaves the watermark at t whatever it was,
\* Reset leaves it five minutes before the current time, and the successful
\* Collect that follows either returns exactly the listed events last seen
\* strictly after that value, each once, those an earlier Collect returned
\* included.
C37_ExplicitWatermarkThenCollect ==
  [][/\ \A t \in Times : SetLastTimestamp(t) => lastTimestamp' = t
     /\ Reset => lastTimestamp' = now - FiveMinutes
     /\ (lastOp \in {"Reset", "SetLastTimestamp"} /\ ECCollectOk) =>
          /\ IdsOf(ecEvents') = NewerThan(cluster, lastTimestamp)
          /\ Len(ecEvents') = Cardinality(NewerThan(cluster, lastTimestamp))
          /\ \A j \in 1..Len(ecEvents) :
               (/\ cluster[ecEvents[j].id] = ecEvents[j].timestamp
                /\ ecEvents[j].timestamp > lastTimestamp) =>
                  ecEvents[j].id \in IdsOf(ecEvents')]_vars

\* C37 witness: after a Collect that returned an event and moved the
\* watermark to its last-seen time, SetLastTimestamp has put the watermark
\* back before it, and the Collect that follows returns the event again.
C37_Witness ==
  /\ lastOp = "SetLastTimestamp" /\ ~ecErr
  /\ \E j \in 1..Len(ecEvents) :
       /\ cluster[ecEvents[j].id] = ecEvents[j].timestamp
       /\ lastTimestamp < ecEvents[j].timestamp
       /\ ecEvents[j].id \in IdsOf(Collect(ListEvents(cluster), lastTimestamp).events)

\* ------------------------------------------------- a second Start: claims

\* The loops of source s that are running: launched and not returned.
RunningLoops(s) ==
  (IF pc[s] \in {"idle", "exited"} THEN 0 ELSE 1)
  + (IF second.pc[s] \in {"idle", "exited"} THEN 0 ELSE 1)

\* C38: at every moment at most one loop per source is running on the
\* Collector, whatever calls of Start and Stop have been made.
C38_OneLoopPerSource == \A s \in Sources : RunningLoops(s) <= 1

\* ------------------------------------------------- cycles of a loop: claims

\* The sources whose loop is inside a cycle.
InCycle == {s \in Collecting : pc[s] \in {"collect", "publish"}}

\* C39: the cycles of a loop do not overlap: every tick taken so far is
\* either a cycle that has completed, with its one recorder call, or the
\* one cycle its loop is in; a loop at its select, and one that has just
\* begun a cycle, holds no record of an earlier cycle, published or not.
C39_CyclesDoNotOverlap ==
  /\ ticks = recorder["system"].observations + recorder["nodes"].observations
             + recorder["pods"].observations + recorder["events"].observations
             + Cardinality(InCycle)
  /\ \A s \in Collecting :
       pc[s] # "publish" => (batch[s] = <<>> /\ sent[s] = <<>>)

\* C39 witness: a loop has begun its second cycle, the first one completed
\* with MaxBatch records behind it.
C39_Witness ==
  \E s \in Collecting :
    /\ pc[s] = "collect"
    /\ recorder[s] = [collected |-> MaxBatch, observations |-> 1, errors |-> 0]

\* -------------------------------------------- Start against Stop: claims

\* C40: Stop's wait covers the loops of the Start call run starts in its
\* goroutine: when Stop closes the writer after its select took <-done,
\* the four loops have been launched and have returned, and no loop is
\* launched once the writer is closed on that branch.
C40_StopWaitCoversStart ==
  [][/\ (stopBranch = "stopped" /\ ~writerClosed /\ writerClosed') =>
          \A s \in Sources : launched[s] = 1 /\ pc[s] = "exited"
     /\ (stopBranch = "stopped" /\ writerClosed) => launched' = launched]_vars

====
